---- MODULE Spec2Model ----
(***************************************************************************)
(* Booking lifecycle and time-slot reconciliation of the medxbay backend:  *)
(* POST /patient/book (src/routes/patient.js) and POST /doctor/bookings/:id *)
(* (src/routes/doctor.js).  Every await of a handler is one step, so that  *)
(* requests interleave exactly where the event loop lets them.  With them: *)
(* the doctor's time-slot routes (src/routes/doctor.js) and the two doctor *)
(* searches (src/routes/patient.js); and, each on state of its own, the    *)
(* doctor's subscription, the calendars, the patient's favorites and the   *)
(* doctor's blogs.                                                         *)
(***************************************************************************)
EXTENDS Integers, Sequences, FiniteSets, TLC

\* ---------------------------------------------------------------- bounds
MaxBookings == 1        \* bookings ever created
MaxUpdates  == 2        \* POST /doctor/bookings/:id requests ever started
MaxNow      == 2        \* last value of the clock
MaxInflight == 2        \* connections that can carry a request at once
MaxParams   == 3        \* query parameters one search request gives
MaxSlots    == 3        \* time slots a doctor offers at once
MaxCheckouts == 2       \* checkout sessions ever created
MaxApplied  == 2        \* times a subscription is written to a doctor
MaxAdds     == 3        \* POST /patient/add-to-favorites requests ever started
MaxBlogs    == 2        \* blogs ever posted

Conns == 1..MaxInflight

\* ------------------------------------------------------------ input sets
Patients    == {"p1"}                           \* session users with role 'patient'
DoctorIds   == {"d1", "d0"}                     \* d0 matches no Doctor document
Doctors     == {"d1"}                           \* stored Doctor documents
ConsultationTypes == {"Video call", "In-person", "Chat"}
Statuses    == {"waiting", "accepted", "rejected", "completed"}
Outcomes    == {TRUE, FALSE}                    \* an awaited call resolves or rejects
\* req.session.user: nobody, a patient, the doctor of the stored document, and
\* another doctor
Nobody      == [role |-> "", id |-> ""]
Sessions    == {Nobody, [role |-> "patient", id |-> "p1"],
                [role |-> "doctor", id |-> "d1"], [role |-> "doctor", id |-> "d2"]}

\* A request's date string: the instant new Date(date) parses it to, and
\* whether the string is spelled the way Date.prototype.toISOString spells it.
DateStrings == {[instant |-> 0, iso |-> TRUE], [instant |-> 0, iso |-> FALSE]}
\* A request's time string 'HH:mm - HH:mm', held as the parts split(' - ') gives.
TimeStrings == {<<"00:00", "01:00">>, <<"01:00", "02:00">>}

\* ------------------------------------------------------ pure conversions
\* new Date(date)
NewDate(date) == date.instant
\* Date.prototype.toISOString()
toISOString(instant) == [instant |-> instant, iso |-> TRUE]
\* time.split(' - ')
split(time) == [i \in 1..Len(time) |-> time[i]]
\* moment(s, 'HH:mm'): hour of the day, the unit of the clock
HHmm(s) == CASE s = "00:00" -> 0
             [] s = "01:00" -> 1
             [] s = "02:00" -> 2
             [] OTHER -> 0
\* moment(bookingDate).set({hour, minute}) for the end of the time range
bookingEndDateTime(booking) == booking.date + HHmm(split(booking.time)[2])

VARIABLES now, bookings, timeSlots, chats, calendar, req, nUpdates,
          Doctor, search,
          stripe, subscriptionInfo, subscribed, applied, reply,
          today, appointments, view,
          favoriteDoctors, adding, nAdds,
          blogs, blogRes

\* the doctor's subscription: the checkout sessions, req.session.subscriptionInfo,
\* the subscription fields of the Doctor documents, the writes made to them,
\* and the response to the last request
subscription == <<stripe, subscriptionInfo, subscribed, applied, reply>>

\* the calendars: the date of the day, the Booking documents they find, and
\* the last calendar rendered
calendars == <<today, appointments, view>>

\* the favorites: the stored lists, the add-to-favorites requests on each
\* connection, and how many were started
favorites == <<favoriteDoctors, adding, nAdds>>

\* the blogs: the Blog documents and the response to the last request
blogging == <<blogs, blogRes>>

\* what neither the booking handlers nor the doctor search touch
others == <<subscription, calendars, favorites, blogging>>

vars == <<now, bookings, timeSlots, chats, calendar, req, nUpdates, Doctor, search,
          others>>

\* what the booking handlers leave alone: the doctor search and the others
aside == <<Doctor, search, others>>
\* what the doctor search leaves alone: bookings and the requests on them
booked == <<now, bookings, timeSlots, chats, calendar, req, nUpdates>>

\* ------------------------------------------------------ stored documents
\* new Booking({...}) of POST /patient/book
Booking(patient, doctorId, date, time, consultationType) ==
    [patient |-> patient, doctor |-> doctorId, date |-> NewDate(date), time |-> time,
     consultationType |-> consultationType, status |-> "waiting", meetingLink |-> << >>]

\* doctor.hospitals of the stored Doctor documents
hospitals ==
    << [name |-> "h1", street |-> "1 Main St", city |-> "Delhi", state |-> "Delhi",
        country |-> "India", zip |-> "110001"] >>
Hospitals == {hospitals[i].name : i \in 1..Len(hospitals)}

\* doctor.hospitals.find(h => h.name === hospital)
selectedHospital(hospital) ==
    hospitals[CHOOSE i \in 1..Len(hospitals) :
                /\ hospitals[i].name = hospital
                /\ \A j \in 1..(i - 1) : hospitals[j].name # hospital]

\* newTimeSlot of POST /doctor/add-time-slot
newTimeSlot(date, startTime, hospital) ==
    [date |-> NewDate(date), startTime |-> startTime, status |-> "free",
     hospital |-> hospital,
     hospitalLocation |->
        [street |-> selectedHospital(hospital).street,
         city |-> selectedHospital(hospital).city,
         state |-> selectedHospital(hospital).state,
         country |-> selectedHospital(hospital).country,
         zip |-> selectedHospital(hospital).zip]]

\* The time slots a doctor has offered when the server starts.
InitialSlots ==
    << newTimeSlot([instant |-> 0, iso |-> TRUE], "00:00", "h1"),
       newTimeSlot([instant |-> 0, iso |-> TRUE], "02:00", "h1") >>

\* ----------------------------------------------------- request handlers
\* What a connection holds when it carries no request.  booking and slots are
\* the documents a handler has in memory (<<>> when it holds none); newStatus,
\* link and slotStatus are the values it has assigned to them and not yet saved.
Idle ==
    [kind |-> "none", pc |-> "idle", session |-> Nobody,
     id |-> 0, status |-> "", date |-> <<>>, index |-> <<>>,
     booking |-> <<>>, doctorFound |-> FALSE, slots |-> <<>>,
     currentStatus |-> "", late |-> FALSE, newStatus |-> "", link |-> << >>,
     timeSlotIndex |-> 0, slotStatus |-> "",
     sent |-> <<>>, pushed |-> 0, events |-> 0, res |-> <<>>, failed |-> FALSE,
     overlapped |-> FALSE, interleaved |-> FALSE]

Busy(c) == req[c].pc \notin {"idle", "done"}

\* A connection can take a request while fewer than K requests are running.
Free(K, c) == c <= K /\ ~Busy(c)

\* What a run draws from: how many requests run at once, the outcomes an awaited
\* call can have, how many bookings are made, and the values requests carry.
\* The requests to the doctor's routes come from the doctor of the stored
\* document unless a specification says otherwise.
Everything ==
    [requests |-> MaxInflight, outcomes |-> Outcomes, bookings |-> MaxBookings,
     doctorIds |-> DoctorIds, dates |-> DateStrings, times |-> TimeStrings,
     types |-> ConsultationTypes, statuses |-> Statuses,
     sessions |-> {[role |-> "doctor", id |-> "d1"]}]

\* res.redirect / res.status(n).send: the handler returns; its documents are dropped.
Respond(r, response) ==
    [r EXCEPT !.pc = "done", !.res = Append(@, response),
              !.date = <<>>, !.index = <<>>, !.booking = <<>>, !.doctorFound = FALSE, !.slots = <<>>,
              !.currentStatus = "", !.late = FALSE, !.newStatus = "", !.link = << >>,
              !.slotStatus = ""]

\* an awaited call rejects, or a statement throws
Throw(r) == [r EXCEPT !.failed = TRUE]

\* catch (error) { res.status(500).send('Server Error') }
Catch(r) == Respond(r, "500 Server Error")

\* A request that starts while others run overlaps them (history, for the
\* claims that speak of requests running one at a time or concurrently).
Arrive(c, r) ==
    [x \in Conns |->
        IF x = c THEN [r EXCEPT !.overlapped = \E y \in Conns \ {c} : Busy(y)]
        ELSE IF Busy(x) THEN [req[x] EXCEPT !.overlapped = TRUE]
        ELSE req[x]]

\* --------------------------------- POST /doctor/bookings/:id, pure parts
\* isLoggedIn of routes/doctor.js: req.session.user && req.session.user.role === 'doctor'
isLoggedIn(session) == session.role = "doctor"

\* now.isAfter(bookingEndDateTime)
isAfter(nowv, booking) == nowv > bookingEndDateTime(booking)

\* (mutants of NewStatus: the end time is not looked at; a misspelt status;
\* isSameOrAfter for isAfter)
NewStatus_asRequested(nowv, booking, status) == status

NewStatus_misspelt(nowv, booking, status) ==
    IF nowv > bookingEndDateTime(booking) THEN "complete" ELSE status

NewStatus_sameOrAfter(nowv, booking, status) ==
    IF nowv >= bookingEndDateTime(booking) THEN "completed" ELSE status

\* now.isAfter(bookingEndDateTime) ? 'completed' : status
NewStatus(nowv, booking, status) ==
    IF nowv > bookingEndDateTime(booking) THEN "completed" ELSE status

\* (mutant of NeedsMeetLink: the link the booking already has is not looked at)
NeedsMeetLink_again(status, booking) ==
    /\ status = "accepted"
    /\ booking.consultationType = "Video call"

\* status === 'accepted' && !booking.meetingLink && consultationType === 'Video call'
NeedsMeetLink(status, booking) ==
    /\ status = "accepted"
    /\ booking.meetingLink = << >>
    /\ booking.consultationType = "Video call"

\* doctor.timeSlots.findIndex(...): the first matching position, 0 for -1
SlotMatches(slot, booking) ==
    /\ toISOString(slot.date) = toISOString(booking.date)
    /\ slot.startTime = split(booking.time)[1]

\* (mutant of findIndex: by date alone)
findIndex_byDate(slots, booking) ==
    IF \E i \in 1..Len(slots) : toISOString(slots[i].date) = toISOString(booking.date)
    THEN CHOOSE i \in 1..Len(slots) :
            /\ toISOString(slots[i].date) = toISOString(booking.date)
            /\ \A j \in 1..(i-1) : toISOString(slots[j].date) # toISOString(booking.date)
    ELSE 0

findIndex(slots, booking) ==
    IF \E i \in 1..Len(slots) : SlotMatches(slots[i], booking)
    THEN CHOOSE i \in 1..Len(slots) :
            /\ SlotMatches(slots[i], booking)
            /\ \A j \in 1..(i-1) : ~SlotMatches(slots[j], booking)
    ELSE 0

\* (mutants of SlotStatus: a rejection does not free the slot; the slot follows
\* the status the booking had instead of the requested one)
SlotStatus_neverFreed(currentStatus, status) == "booked"

SlotStatus_byCurrent(currentStatus, status) ==
    IF currentStatus = "rejected" THEN "free" ELSE "booked"

\* the three branches that assign doctor.timeSlots[timeSlotIndex].status
SlotStatus(currentStatus, status) ==
    IF currentStatus = "rejected" /\ status \in {"waiting", "accepted"} THEN "booked"
    ELSE IF status = "rejected" THEN "free"
    ELSE "booked"

\* (mutant of Emails: the doctor is notified of every confirmation)
Emails_doctorToo(status, consultationType) ==
    IF status = "accepted" /\ consultationType \in {"Video call", "In-person"}
        THEN << [to |-> "patient", subject |-> "Appointment Confirmation"],
                [to |-> "doctor", subject |-> "Appointment Confirmation Notification"] >>
    ELSE IF status = "rejected"
        THEN << [to |-> "patient", subject |-> "Appointment Rejection"] >>
    ELSE << >>

\* the sendAppointmentEmail calls of one request, in order
Emails(status, consultationType) ==
    IF status = "accepted" /\ consultationType = "Video call"
        THEN << [to |-> "patient", subject |-> "Appointment Confirmation"],
                [to |-> "doctor", subject |-> "Appointment Confirmation Notification"] >>
    ELSE IF status = "accepted" /\ consultationType = "In-person"
        THEN << [to |-> "patient", subject |-> "Appointment Confirmation"] >>
    ELSE IF status = "rejected"
        THEN << [to |-> "patient", subject |-> "Appointment Rejection"] >>
    ELSE << >>

\* the chat message pushed after the emails
ChatMessage(booking, status) ==
    [senderId |-> booking.doctor,
     text |-> IF status = "accepted" THEN "confirmed" ELSE "rejected"]

\* the chat a status update writes to: { doctorId: booking.doctor, patientId: booking.patient }
ChatKey(booking) == <<booking.doctor, booking.patient>>

\* (mutant of PushMessage: $set where $push was meant)
PushMessage_set(cs, key, m) ==
    IF key \in DOMAIN cs THEN [cs EXCEPT ![key] = <<m>>]
    ELSE cs @@ (key :> <<m>>)

\* Chat.findOneAndUpdate(key, { $push: { messages: m } }, { upsert: true })
PushMessage(cs, key, m) ==
    IF key \in DOMAIN cs THEN [cs EXCEPT ![key] = Append(@, m)]
    ELSE cs @@ (key :> <<m>>)

\* (mutant of SaveBooking: the meeting link is left out of the write)
SaveBooking_statusOnly(stored, r) ==
    [stored EXCEPT !.status = IF r.newStatus # r.booking[1].status THEN r.newStatus ELSE @]

\* booking.save(): the paths the handler changed are written
SaveBooking(stored, r) ==
    [stored EXCEPT
        !.status = IF r.newStatus # r.booking[1].status THEN r.newStatus ELSE @,
        !.meetingLink = IF r.link # r.booking[1].meetingLink THEN r.link ELSE @]

\* doctor.save(): the slot status the handler changed is written
SaveSlots(stored, r) ==
    IF r.slotStatus # r.slots[r.timeSlotIndex].status /\ r.timeSlotIndex <= Len(stored)
    THEN [stored EXCEPT ![r.timeSlotIndex].status = r.slotStatus]
    ELSE stored

\* ------------------------------------------- POST /patient/book, pure part
\* (mutant of find: the last matching slot is taken)
find_last(slots, date, time) ==
    LET hit(i) == /\ toISOString(slots[i].date) = date
                  /\ slots[i].startTime = split(time)[1]
    IN  IF \E i \in 1..Len(slots) : hit(i)
        THEN CHOOSE i \in 1..Len(slots) : hit(i) /\ \A j \in (i+1)..Len(slots) : ~hit(j)
        ELSE 0

\* doctor.timeSlots.find(slot => slot.date.toISOString() === date && ...)
find(slots, date, time) ==
    LET hit(i) == /\ toISOString(slots[i].date) = date
                  /\ slots[i].startTime = split(time)[1]
    IN  IF \E i \in 1..Len(slots) : hit(i)
        THEN CHOOSE i \in 1..Len(slots) : hit(i) /\ \A j \in 1..(i-1) : ~hit(j)
        ELSE 0

\* -------------------------------------------- doctor search, pure parts
\* Strings of the search are sequences of characters, so that a regular
\* expression can look inside them; << >> is the empty string (falsy).
Lower(ch) == CASE ch = "C" -> "c" [] ch = "D" -> "d" [] ch = "P" -> "p"
               [] ch = "R" -> "r" [] OTHER -> ch

\* new RegExp(p, 'i').test(s): p occurs in s, letter case aside
test(p, s) ==
    \E k \in 0..(Len(s) - Len(p)) : \A i \in 1..Len(p) : Lower(s[k + i]) = Lower(p[i])

\* { field: { $regex: re } } on a string field
regex(value, p) == test(p, value)
\* { field: { $in: [re] } } and { field: { $regex: re } } on an array of strings
regexAny(values, p) == \E i \in 1..Len(values) : test(p, values[i])
\* { field: v } on an array of strings: one element equals v
has(values, v) == \E i \in 1..Len(values) : values[i] = v
\* languages.split(',')
splitComma(s) ==
    IF \E i \in 1..Len(s) : s[i] = ","
    THEN LET k == CHOOSE i \in 1..Len(s) : s[i] = "," /\ \A j \in 1..(i-1) : s[j] # ","
         IN  {SubSeq(s, 1, k - 1), SubSeq(s, k + 1, Len(s))}
    ELSE {s}

\* The places, specialities, names and other particulars doctors have.
Places ==
    { [country |-> <<"I","n">>, state |-> <<"D","e","l">>, city |-> <<"D","e","l">>],
      [country |-> <<"I","n">>, state |-> <<"M","h">>, city |-> <<"P","u","n">>] }
Specialities == { << <<"C","a","r","d">> >>, << <<"D","e","r","m">> >> }
Names == { <<"R","a","d">>, <<"P","i","a">> }
Particulars ==
    { [gender |-> <<"f">>, languages |-> << <<"H","i">> >>, availability |-> TRUE,
       conditions |-> << <<"c","o","l","d">> >>, consultation |-> <<"v">>,
       dateAvailability |-> 0],
      [gender |-> <<"m">>, languages |-> << <<"E","n">>, <<"H","i">> >>,
       availability |-> FALSE, conditions |-> << >>, consultation |-> <<"p">>,
       dateAvailability |-> 1] }

\* The documents the Doctor collection can hold.  hospitals is an array of
\* subdocuments ({ name, street, ... }), which no string or regex matches.
Standings ==
    { [role |-> "doctor", verified |-> "Verified", timeSlots |-> <<"booked", "free">>],
      [role |-> "admin",  verified |-> "Verified", timeSlots |-> <<"booked", "free">>],
      [role |-> "doctor", verified |-> "Pending",  timeSlots |-> <<"booked", "free">>],
      [role |-> "doctor", verified |-> "Verified", timeSlots |-> <<"booked">>],
      [role |-> "doctor", verified |-> "Verified", timeSlots |-> << >>] }
Profiles ==
    { [role |-> st.role, verified |-> st.verified, timeSlots |-> st.timeSlots,
       place |-> pl, speciality |-> sp, name |-> n, more |-> m] :
        st \in Standings, pl \in Places, sp \in Specialities, n \in Names,
        m \in Particulars }

\* The values a request can give each query parameter (beside leaving it out).
Params ==
    [what |-> { <<"c","a","r">>, <<"r","a">> }, where |-> { <<"d","e","l">> },
     country |-> { <<"I","n">> }, state |-> { <<"M","h">> }, city |-> { <<"P","u","n">> },
     speciality |-> { <<"D","e","r","m">> }, languages |-> { <<"E","n",",","F","r">> },
     gender |-> { <<"f">> }, hospitals |-> { <<"c","i","t","y">> },
     hospital |-> { <<"c","i","t","y">> }, availability |-> { <<"true">>, <<"false">> },
     dateAvailability |-> { <<[instant |-> 0, iso |-> FALSE]>> },
     consultation |-> { <<"v">> }]

\* req.query with no parameter given
NoQuery == [p \in DOMAIN Params |-> << >>]
given(q, p) == q[p] # << >>
\* the parameters a query gives
Given(q) == {p \in DOMAIN q : given(q, p)}

NoSearch == [endpoint |-> "", query |-> NoQuery, status |-> 0, doctors |-> {}]

\* a path the routes query and no route writes: it holds nothing
Missing == << >>

\* query.$or of GET /auth/search-doctors: `where` assigns over what `what` assigned
authOr(q, d) ==
    LET whatOr  == \/ regexAny(d.speciality, q.what) \/ regex(d.name, q.what)
                   \/ regexAny(d.more.conditions, q.what)
        whereOr == \/ regex(d.place.city, q.where) \/ regex(d.place.state, q.where)
                   \/ regex(d.place.country, q.where)
    IN  IF given(q, "where") THEN whereOr
        ELSE IF given(q, "what") THEN whatOr
        ELSE TRUE

\* (mutants of authQuery: the free time slot is not asked for; the gender
\* filter is one more alternative of $or instead of a condition of its own)
authQuery_anySlot(q, d) ==
    /\ d.role = "doctor" /\ d.verified = "Verified"
    /\ given(q, "country") => regex(d.place.country, q.country)
    /\ given(q, "state") => regex(d.place.state, q.state)
    /\ given(q, "city") => regex(d.place.city, q.city)
    /\ given(q, "speciality") => regexAny(d.speciality, q.speciality)
    /\ given(q, "languages") => regexAny(d.more.languages, q.languages)
    /\ given(q, "gender") => d.more.gender = q.gender
    /\ given(q, "hospitals") => FALSE
    /\ given(q, "availability") => d.more.availability = (q.availability = <<"true">>)
    /\ authOr(q, d)

authQuery_genderOr(q, d) ==
    /\ d.role = "doctor" /\ d.verified = "Verified"
    /\ \E i \in 1..Len(d.timeSlots) : d.timeSlots[i] = "free"
    /\ given(q, "country") => regex(d.place.country, q.country)
    /\ given(q, "state") => regex(d.place.state, q.state)
    /\ given(q, "city") => regex(d.place.city, q.city)
    /\ given(q, "speciality") => regexAny(d.speciality, q.speciality)
    /\ given(q, "languages") => regexAny(d.more.languages, q.languages)
    /\ given(q, "hospitals") => FALSE
    /\ given(q, "availability") => d.more.availability = (q.availability = <<"true">>)
    /\ IF given(q, "gender")
       THEN d.more.gender = q.gender \/ ((given(q, "what") \/ given(q, "where")) /\ authOr(q, d))
       ELSE authOr(q, d)

\* the query of GET /auth/search-doctors, as Doctor.find applies it to a document
authQuery(q, d) ==
    /\ d.role = "doctor" /\ d.verified = "Verified"
    /\ \E i \in 1..Len(d.timeSlots) : d.timeSlots[i] = "free"
    /\ given(q, "country") => regex(d.place.country, q.country)
    /\ given(q, "state") => regex(d.place.state, q.state)
    /\ given(q, "city") => regex(d.place.city, q.city)
    /\ given(q, "speciality") => regexAny(d.speciality, q.speciality)
    /\ given(q, "languages") => regexAny(d.more.languages, q.languages)
    /\ given(q, "gender") => d.more.gender = q.gender
    /\ given(q, "hospitals") => FALSE          \* $regex on an array of subdocuments
    /\ given(q, "availability") => d.more.availability = (q.availability = <<"true">>)
    /\ authOr(q, d)

\* filter.$or of GET /patient/search-doctors: the alternatives of `what`, and
\* pushed after them the alternatives of `where`
patientOr(q, d) ==
    LET whatOr  == \/ regexAny(d.speciality, q.what) \/ regexAny(Missing, q.what)
                   \/ regex(d.name, q.what)
        whereOr == \/ regex(d.place.city, q.where) \/ regex(d.place.state, q.where)
                   \/ regex(d.place.country, q.where)
    IN  (given(q, "what") \/ given(q, "where")) =>
            \/ given(q, "what") /\ whatOr
            \/ given(q, "where") /\ whereOr

\* the filter of GET /patient/search-doctors
patientFilter(q, d) ==
    /\ patientOr(q, d)
    /\ given(q, "country") => d.place.country = q.country
    /\ given(q, "state") => d.place.state = q.state
    /\ given(q, "city") => d.place.city = q.city
    /\ given(q, "speciality") => has(d.speciality, q.speciality)
    /\ given(q, "languages") => \E l \in splitComma(q.languages) : has(Missing, l)
    /\ given(q, "gender") => d.more.gender = q.gender
    /\ given(q, "hospital") => FALSE           \* a string against subdocuments
    /\ given(q, "availability") => d.more.availability = (q.availability = <<"true">>)
    /\ given(q, "dateAvailability") =>
            d.more.dateAvailability = NewDate(q.dateAvailability[1])
    /\ given(q, "consultation") => d.more.consultation = q.consultation

\* ------------------------------------------- the doctor's subscription
\* req.body.subscriptionType
SubscriptionTypes == {"Standard", "Premium"}
\* req.body.paymentDetails.amount, one character after the other
Amounts == { <<"5", "0">>, <<"9", "9">>, <<"0">>, <<"-", "5", "0">>,
             <<"5", "0", ".", "5">>, <<"9", "9", "u", "s", "d">>,
             <<"a", "b", "c">>, << >> }
\* req.body.paymentDetails: not sent, or sent with an amount
PaymentDetails == {<< >>} \cup {<<[amount |-> a]>> : a \in Amounts}
\* req.files: without the three proofs, or with them
Uploads == {<< >>, <<"proofs">>}
\* req.session.user of the subscription routes
Subscribers == {[role |-> "patient", id |-> "p1"], [role |-> "doctor", id |-> "d1"]}

Digits == {"0", "1", "2", "3", "4", "5", "6", "7", "8", "9"}
Digit(ch) == CASE ch = "0" -> 0 [] ch = "1" -> 1 [] ch = "2" -> 2 [] ch = "3" -> 3
               [] ch = "4" -> 4 [] ch = "5" -> 5 [] ch = "6" -> 6 [] ch = "7" -> 7
               [] ch = "8" -> 8 [] ch = "9" -> 9

\* the value of the digits s[from..to], read in base 10
RECURSIVE Base10(_, _, _)
Base10(s, from, to) ==
    IF to < from THEN 0 ELSE 10 * Base10(s, from, to - 1) + Digit(s[to])

\* parseInt(s, 10): an optional sign and the digits that follow it, up to the
\* first character that is no digit; NaN when there is no digit
parseInt(s) ==
    LET signed == Len(s) > 0 /\ s[1] \in {"-", "+"}
        first == IF signed THEN 2 ELSE 1
        stops == {i \in first..Len(s) : s[i] \notin Digits}
        last == IF stops = {} THEN Len(s)
                ELSE (CHOOSE i \in stops : \A j \in stops : i <= j) - 1
    IN  IF last < first THEN [nan |-> TRUE, n |-> 0]
        ELSE [nan |-> FALSE,
              n |-> (IF signed /\ s[1] = "-" THEN -1 ELSE 1) * Base10(s, first, last)]

isNaN(x) == x.nan

\* JSON.stringify(paymentDetails)
stringify(paymentDetails) ==
    <<"{", "amount", paymentDetails.amount, "currency", paymentDetails.currency, "}">>

\* the subscription fields of a Doctor document nobody has subscribed
Unsubscribed ==
    [subscription |-> "", subscriptionType |-> "", paymentDetails |-> << >>,
     documents |-> << >>, subscriptionVerification |-> ""]

NoReply == [route |-> "", session |-> Nobody, request |-> << >>, status |-> 0]

SubscriptionInit ==
    /\ stripe = << >>
    /\ subscriptionInfo = << >>
    /\ subscribed = [d \in Doctors |-> Unsubscribed]
    /\ applied = << >>
    /\ reply = NoReply

\* POST /doctor/subscribe: isLoggedIn, the amount check, the three proofs,
\* `await stripe.checkout.sessions.create(...)`, req.session.subscriptionInfo
\* and the redirect to the checkout page
subscribe(session, subscriptionType, paymentDetails, files, ok) ==
    LET amount == parseInt(paymentDetails[1].amount)
        answer(status) == [route |-> "POST /doctor/subscribe", session |-> session,
                           request |-> <<subscriptionType, paymentDetails, files>>,
                           status |-> status]
    IN  /\ Len(stripe) < MaxCheckouts
        /\ IF ~isLoggedIn(session)
           THEN reply' = answer(302) /\ UNCHANGED <<stripe, subscriptionInfo>>
           ELSE IF paymentDetails = << >>
           THEN reply' = answer(500) /\ UNCHANGED <<stripe, subscriptionInfo>>
           ELSE IF isNaN(amount) \/ amount.n <= 0
           THEN reply' = answer(400) /\ UNCHANGED <<stripe, subscriptionInfo>>
           ELSE IF files = << >> \/ ~ok
           THEN reply' = answer(500) /\ UNCHANGED <<stripe, subscriptionInfo>>
           ELSE /\ stripe' = Append(stripe,
                        [name |-> subscriptionType, unit_amount |-> amount.n,
                         payment_status |-> "unpaid"])
                /\ subscriptionInfo' =
                        <<[doctorId |-> session.id, subscriptionType |-> subscriptionType,
                           paymentDetails |-> [amount |-> amount.n, currency |-> "usd"],
                           proofs |-> files]>>
                /\ reply' = answer(303)
        /\ UNCHANGED <<subscribed, applied>>
        /\ UNCHANGED <<booked, Doctor, search, calendars, favorites, blogging>>

\* The customer pays on the checkout page.
Pay(id) ==
    /\ id \in 1..Len(stripe)
    /\ stripe[id].payment_status = "unpaid"
    /\ stripe' = [stripe EXCEPT ![id].payment_status = "paid"]
    /\ UNCHANGED <<subscriptionInfo, subscribed, applied, reply>>
    /\ UNCHANGED <<booked, Doctor, search, calendars, favorites, blogging>>

\* GET /doctor/subscription-success?session_id=...:
\* `await stripe.checkout.sessions.retrieve(...)`, then for a paid session
\* `await Doctor.findByIdAndUpdate(...)` with req.session.subscriptionInfo
subscriptionSuccess(session, session_id, ok, saved) ==
    LET answer(status) == [route |-> "GET /doctor/subscription-success",
                           session |-> session, request |-> <<session_id>>,
                           status |-> status]
        info == subscriptionInfo[1]
    IN  /\ Len(applied) < MaxApplied
        /\ IF session_id \notin 1..Len(stripe) \/ ~ok
           THEN reply' = answer(500) /\ UNCHANGED <<subscribed, applied>>
           ELSE IF stripe[session_id].payment_status # "paid"
           THEN reply' = answer(400) /\ UNCHANGED <<subscribed, applied>>
           ELSE IF subscriptionInfo = << >> \/ ~saved
           THEN reply' = answer(500) /\ UNCHANGED <<subscribed, applied>>
           ELSE /\ subscribed' =
                    [d \in Doctors |->
                        IF d # info.doctorId THEN subscribed[d]
                        ELSE [subscription |-> "Pending",
                              subscriptionType |-> info.subscriptionType,
                              paymentDetails |-> stringify(info.paymentDetails),
                              documents |-> info.proofs,
                              subscriptionVerification |-> "Pending"]]
                /\ applied' = Append(applied,
                        [session_id |-> session_id, doctorId |-> info.doctorId,
                         subscriptionType |-> info.subscriptionType,
                         amount |-> info.paymentDetails.amount])
                /\ reply' = answer(200)
        /\ UNCHANGED <<stripe, subscriptionInfo>>
        /\ UNCHANGED <<booked, Doctor, search, calendars, favorites, blogging>>

\* The subscription routes, one request at a time in one browser session.
SubscriptionNext ==
    \/ \E session \in Subscribers, subscriptionType \in SubscriptionTypes,
          paymentDetails \in PaymentDetails, files \in Uploads, ok \in Outcomes :
            subscribe(session, subscriptionType, paymentDetails, files, ok)
    \/ \E id \in 1..MaxCheckouts : Pay(id)
    \/ \E session \in Subscribers, session_id \in 0..MaxCheckouts,
          ok \in Outcomes, saved \in Outcomes :
            subscriptionSuccess(session, session_id, ok, saved)

\* --------------------------------------------------------- the calendars
\* req.query.month and req.query.year, one character after the other; << >>
\* stands for a parameter that is not sent (parseInt gives NaN for it, as for '')
Months == { <<"0">>, <<"5">>, <<"1", "1">>, <<"1", "2">>, <<"-", "1">>,
            <<"5", "a">>, <<"a">>, << >> }
Years == { <<"1", "9", "0", "0">>, <<"2", "1", "0", "0">>, <<"2", "0", "2", "4">>,
           <<"1", "8", "9", "9">>, <<"2", "1", "0", "1">>, <<"a">>, << >> }
\* new Date() of the request: getFullYear() and getMonth()
Todays == {[year |-> 2026, month |-> 10], [year |-> 2024, month |-> 0]}
\* req.session.user of the calendar routes, and the stored Patient documents
Viewers == {[role |-> "patient", id |-> "p1"], [role |-> "patient", id |-> "p0"],
            [role |-> "doctor", id |-> "d1"], [role |-> "doctor", id |-> "d2"]}
StoredPatients == {"p1"}

\* new Date(year, month, day, 0, 0, seconds) as what orders it
Date(year, month, day, seconds) == <<year, month, day, seconds>>
\* a <= b for two dates
Lte(a, b) ==
    \E i \in 1..4 : (\A j \in 1..(i - 1) : a[j] = b[j])
                    /\ (a[i] < b[i] \/ (i = 4 /\ a[i] = b[i]))

\* Booking documents the calendars can find
Appointments ==
    { [doctor |-> "d1", patient |-> "p1", date |-> Date(2026, 0, 15, 0), status |-> "accepted"],
      [doctor |-> "d1", patient |-> "p1", date |-> Date(2026, 10, 30, 86399), status |-> "accepted"],
      [doctor |-> "d1", patient |-> "p1", date |-> Date(2026, 10, 1, 0), status |-> "waiting"],
      [doctor |-> "d1", patient |-> "p1", date |-> Date(2024, 1, 29, 0), status |-> "accepted"],
      [doctor |-> "d2", patient |-> "p2", date |-> Date(2026, 10, 10, 0), status |-> "accepted"] }

\* new Date(year, month + 1, 0).getDate()
DaysInMonth(year, month) ==
    IF month = 1
    THEN (IF year % 4 = 0 /\ (year % 100 # 0 \/ year % 400 = 0) THEN 29 ELSE 28)
    ELSE IF month \in {3, 5, 8, 10} THEN 30 ELSE 31

\* parseInt(value) || fallback: NaN and 0 give the fallback
OrElse(value, fallback) ==
    IF isNaN(parseInt(value)) \/ parseInt(value).n = 0 THEN fallback
    ELSE parseInt(value).n

\* currentMonth of both calendar routes
currentMonth(month, currentDate) ==
    LET m == OrElse(month, currentDate.month)
    IN  IF m < 0 \/ m > 11 THEN currentDate.month ELSE m

\* currentYear of both calendar routes
currentYear(year, currentDate) ==
    LET y == OrElse(year, currentDate.year)
    IN  IF y < 1900 \/ y > 2100 THEN currentDate.year ELSE y

\* Booking.find({<role>: id, date: {$gte, $lte}, status: 'accepted'})
BookingFind(role, id, year, month) ==
    {b \in appointments :
        /\ b[role] = id
        /\ Lte(Date(year, month, 1, 0), b.date)
        /\ Lte(b.date, Date(year, month, DaysInMonth(year, month), 23 * 3600 + 59 * 60 + 59))
        /\ b.status = "accepted"}

NoView == [route |-> "", session |-> Nobody, month |-> << >>, year |-> << >>,
           status |-> 0, currentMonth |-> 0, currentYear |-> 0, daysInMonth |-> 0,
           bookings |-> {}]

\* no calendar rendered yet, on a given day over given Booking documents
CalendarOn(currentDate, stored) ==
    /\ today = currentDate
    /\ appointments = stored
    /\ view = NoView

CalendarInit == \E currentDate \in Todays, stored \in {{}, Appointments} :
                    CalendarOn(currentDate, stored)

\* What a calendar route answers: isLoggedIn of its router,
\* `await <Model>.findById(...)`, the month and year, `await Booking.find(...)`
\* and the render
Calendar(route, role, stored, session, month, year, ok) ==
    LET v == [NoView EXCEPT !.route = route, !.session = session,
                            !.month = month, !.year = year]
        m == currentMonth(month, today)
        y == currentYear(year, today)
    IN  IF session.role # role THEN [v EXCEPT !.status = 302]
        ELSE IF ~ok THEN [v EXCEPT !.status = 500]
        ELSE IF session.id \notin stored THEN [v EXCEPT !.status = 404]
        ELSE [v EXCEPT !.status = 200, !.currentMonth = m, !.currentYear = y,
                       !.daysInMonth = DaysInMonth(y, m),
                       !.bookings = BookingFind(role, session.id, y, m)]

\* GET /doctor/calendar
doctorCalendar(session, month, year, ok) ==
    /\ view' = Calendar("GET /doctor/calendar", "doctor", Doctors,
                        session, month, year, ok)
    /\ UNCHANGED <<today, appointments>>
    /\ UNCHANGED <<booked, Doctor, search, subscription, favorites, blogging>>

\* GET /patient/calendar
patientCalendar(session, month, year, ok) ==
    /\ view' = Calendar("GET /patient/calendar", "patient", StoredPatients,
                        session, month, year, ok)
    /\ UNCHANGED <<today, appointments>>
    /\ UNCHANGED <<booked, Doctor, search, subscription, favorites, blogging>>

CalendarNext ==
    \/ \E session \in Viewers, month \in Months, year \in Years, ok \in Outcomes :
            doctorCalendar(session, month, year, ok)
    \/ \E session \in Viewers, month \in Months, year \in Years, ok \in Outcomes :
            patientCalendar(session, month, year, ok)

\* ------------------------------------------------- the patient's favorites
\* req.session.user of POST /patient/add-to-favorites; p0 matches no Patient document
Fans == {[role |-> "patient", id |-> "p1"], [role |-> "patient", id |-> "p0"],
         [role |-> "doctor", id |-> "d1"]}

\* a connection that carries no add-to-favorites request; patient is the
\* Patient document the handler has in memory (<<>> when it holds none)
NotAdding == [pc |-> "idle", session |-> Nobody, doctorId |-> "",
              patient |-> << >>, res |-> ""]

FavoritesInit ==
    /\ favoriteDoctors = [p \in StoredPatients |-> << >>]
    /\ adding = [c \in Conns |-> NotAdding]
    /\ nAdds = 0

\* Array.prototype.includes on a Mongoose array
includes(list, x) == \E i \in 1..Len(list) : list[i] = x

\* POST /patient/add-to-favorites: isLoggedIn of routes/patient.js, then the
\* handler up to `await Patient.findById(patientId)`
AddFindPatient(K, c, session, doctorId, ok) ==
    /\ c <= K /\ adding[c].pc \in {"idle", "done"}
    /\ nAdds < MaxAdds
    /\ nAdds' = nAdds + 1
    /\ LET r == [NotAdding EXCEPT !.session = session, !.doctorId = doctorId]
       IN  adding' = [adding EXCEPT ![c] =
                IF session.role # "patient"
                    THEN [r EXCEPT !.pc = "done", !.res = "redirect /auth/login"]
                ELSE IF ~ok THEN [r EXCEPT !.pc = "done", !.res = "500 Server error"]
                ELSE [r EXCEPT !.pc = "findDoctor",
                               !.patient = IF session.id \in StoredPatients
                                           THEN <<favoriteDoctors[session.id]>>
                                           ELSE << >>]]
    /\ UNCHANGED favoriteDoctors
    /\ UNCHANGED <<booked, Doctor, search, subscription, calendars, blogging>>

\* ... `await Doctor.findById(doctorId)`, the 404, the 400 and the push
AddFindDoctor(c, ok) ==
    /\ adding[c].pc = "findDoctor"
    /\ LET r == adding[c]
       IN  adding' = [adding EXCEPT ![c] =
                IF ~ok THEN [r EXCEPT !.pc = "done", !.res = "500 Server error",
                                      !.patient = << >>]
                ELSE IF r.patient = << >> \/ r.doctorId \notin Doctors
                    THEN [r EXCEPT !.pc = "done", !.patient = << >>,
                                   !.res = "404 Patient or Doctor not found"]
                ELSE IF includes(r.patient[1], r.doctorId)
                    THEN [r EXCEPT !.pc = "done", !.patient = << >>,
                                   !.res = "400 Doctor already in favorites"]
                ELSE [r EXCEPT !.pc = "save",
                               !.patient = <<Append(r.patient[1], r.doctorId)>>]]
    /\ UNCHANGED <<favoriteDoctors, nAdds>>
    /\ UNCHANGED <<booked, Doctor, search, subscription, calendars, blogging>>

\* what `await patient.save()` stores: the pushed id goes on the stored list
Pushed(stored, r) == Append(stored, r.doctorId)

\* ... `await patient.save()` and the redirect
AddSave(c, ok) ==
    /\ adding[c].pc = "save"
    /\ LET r == adding[c]
       IN  IF ok
           THEN /\ favoriteDoctors' = [favoriteDoctors EXCEPT ![r.session.id] = Pushed(@, r)]
                /\ adding' = [adding EXCEPT ![c] =
                        [r EXCEPT !.pc = "done", !.patient = << >>,
                                  !.res = "redirect /patient/doctors"]]
           ELSE /\ adding' = [adding EXCEPT ![c] =
                        [r EXCEPT !.pc = "done", !.patient = << >>,
                                  !.res = "500 Server error"]]
                /\ UNCHANGED favoriteDoctors
    /\ UNCHANGED nAdds
    /\ UNCHANGED <<booked, Doctor, search, subscription, calendars, blogging>>

\* the requests to POST /patient/add-to-favorites, K of them at once
FavoritesNextOf(K) ==
    \/ \E c \in Conns, session \in Fans, doctorId \in DoctorIds, ok \in Outcomes :
            AddFindPatient(K, c, session, doctorId, ok)
    \/ \E c \in Conns, ok \in Outcomes : AddFindDoctor(c, ok)
    \/ \E c \in Conns, ok \in Outcomes : AddSave(c, ok)

\* ------------------------------------------------------ the doctor's blogs
\* req.session.user of the blog routes; d2 has no Doctor document
Bloggers == {Nobody, [role |-> "doctor", id |-> "d1"], [role |-> "doctor", id |-> "d2"]}
\* req.body.title, req.body.categories (<< >> when not sent) and req.query.search
Titles == {<<"f", "l", "u">>, <<"c", "o", "l", "d">>}
Categories == {<< >>, << <<"a", ",", "b">> >>}
Searches == {<< >>, <<"F", "L">>}

NoBlogRes == [route |-> "", session |-> Nobody, id |-> 0, status |-> 0, blogs |-> {}]

BlogInit ==
    /\ blogs = << >>
    /\ blogRes = NoBlogRes

\* POST /doctor/blog: `await Doctor.findOne(...)`, new Blog({...}) and
\* `await newBlog.save()`
postBlog(session, title, categories, file, ok, saved) ==
    LET r == [NoBlogRes EXCEPT !.route = "POST /doctor/blog", !.session = session]
    IN  /\ Len(blogs) < MaxBlogs
        /\ IF session = Nobody \/ ~ok \/ ~file \/ ~saved
           THEN blogRes' = [r EXCEPT !.status = 500] /\ UNCHANGED blogs
           ELSE /\ blogs' = Append(blogs,
                        [authorId |-> IF session.id \in Doctors THEN <<session.id>>
                                      ELSE << >>,
                         title |-> title,
                         categories |-> {categories[i] : i \in 1..Len(categories)},
                         verificationStatus |-> "Pending"])
                /\ blogRes' = [r EXCEPT !.id = Len(blogs) + 1, !.status = 200]
        /\ UNCHANGED <<booked, Doctor, search, subscription, calendars, favorites>>

\* The admin verifies a blog.
Verify(id) ==
    /\ id \in 1..Len(blogs)
    /\ blogs[id].verificationStatus # "Verified"
    /\ blogs' = [blogs EXCEPT ![id].verificationStatus = "Verified"]
    /\ blogRes' = [NoBlogRes EXCEPT !.route = "admin", !.id = id, !.status = 200]
    /\ UNCHANGED <<booked, Doctor, search, subscription, calendars, favorites>>

\* the blog as POST /doctor/blogs/edit/:id assigns it
Edited(blog, title, categories) ==
    [blog EXCEPT !.title = title, !.categories = splitComma(categories[1]),
                 !.verificationStatus = "pending"]

\* POST /doctor/blogs/edit/:id: isLoggedIn, `await Blog.findById(...)`, the 404
\* and the 403, the assignments and `await blog.save()`
editBlog(session, id, title, categories, ok, saved) ==
    LET r == [NoBlogRes EXCEPT !.route = "POST /doctor/blogs/edit/:id",
                               !.session = session, !.id = id]
        status == IF ~isLoggedIn(session) THEN 302
                  ELSE IF ~ok THEN 500
                  ELSE IF id \notin 1..Len(blogs) THEN 404
                  ELSE IF blogs[id].authorId = << >> THEN 500
                  ELSE IF blogs[id].authorId[1] # session.id THEN 403
                  ELSE IF categories = << >> \/ ~saved THEN 500
                  ELSE 200
    IN  /\ IF status = 200
           THEN /\ blogs' = [blogs EXCEPT ![id] = Edited(@, title, categories)]
                /\ blogRes' = [r EXCEPT !.status = 302]
           ELSE /\ blogRes' = [r EXCEPT !.status = status,
                                        !.route = IF status = 302 THEN "isLoggedIn" ELSE @]
                /\ UNCHANGED blogs
        /\ UNCHANGED <<booked, Doctor, search, subscription, calendars, favorites>>

\* GET /doctor/blogs: `await Blog.find(filter).lean()` and the render
getBlogs(searchQuery, ok) ==
    /\ blogRes' =
        [NoBlogRes EXCEPT
            !.route = "GET /doctor/blogs",
            !.status = IF ok THEN 200 ELSE 500,
            !.blogs = IF ~ok THEN {}
                      ELSE {i \in 1..Len(blogs) :
                                /\ blogs[i].verificationStatus = "Verified"
                                /\ searchQuery # << >> =>
                                    \/ regex(blogs[i].title, searchQuery)
                                    \/ \E ct \in blogs[i].categories : regex(ct, searchQuery)}]
    /\ UNCHANGED blogs
    /\ UNCHANGED <<booked, Doctor, search, subscription, calendars, favorites>>

BlogNext ==
    \/ \E session \in Bloggers, title \in Titles, categories \in Categories,
          file \in BOOLEAN, ok \in Outcomes, saved \in Outcomes :
            postBlog(session, title, categories, file, ok, saved)
    \/ \E id \in 1..MaxBlogs : Verify(id)
    \/ \E session \in Bloggers, id \in 1..MaxBlogs, title \in Titles,
          categories \in Categories, ok \in Outcomes, saved \in Outcomes :
            editBlog(session, id, title, categories, ok, saved)
    \/ \E searchQuery \in Searches, ok \in Outcomes : getBlogs(searchQuery, ok)

\* the state of the routes outside booking and search when the server starts,
\* the calendars starting as Calendars says
OthersStart(Calendars) ==
    /\ SubscriptionInit
    /\ Calendars
    /\ FavoritesInit
    /\ BlogInit

OthersInit == OthersStart(CalendarOn([year |-> 2026, month |-> 10], {}))

\* ------------------------------------------------------------- actions
Init ==
    /\ now = 0
    /\ bookings = << >>
    /\ timeSlots = [d \in Doctors |-> InitialSlots]
    /\ chats = << >>
    /\ calendar = [b \in {} |-> 0]
    /\ req = [c \in Conns |-> Idle]
    /\ nUpdates = 0
    /\ Doctor = {}
    /\ search = NoSearch
    /\ OthersInit

\* Time passes.
Tick ==
    /\ now < MaxNow
    /\ now' = now + 1
    /\ UNCHANGED <<bookings, timeSlots, chats, calendar, req, nUpdates, aside>>

\* POST /patient/book up to `await booking.save()`
BookSave(S, c, patient, doctorId, date, time, consultationType, ok) ==
    /\ Free(S.requests, c)
    /\ Len(bookings) < S.bookings
    /\ LET r == [Idle EXCEPT !.kind = "book", !.id = Len(bookings) + 1,
                             !.date = <<date>>, !.pc = "findDoctor"]
       IN  IF ok
           THEN /\ bookings' = Append(bookings,
                        Booking(patient, doctorId, date, time, consultationType))
                /\ calendar' = calendar @@ ((Len(bookings) + 1) :> 0)
                /\ req' = Arrive(c, r)
           ELSE /\ req' = Arrive(c, Catch(Throw([r EXCEPT !.id = 0])))
                /\ UNCHANGED <<bookings, calendar>>
    /\ UNCHANGED <<now, timeSlots, chats, nUpdates, aside>>

\* ... `await Doctor.findById(doctorId)`, the 404 and the slot scan
BookFindDoctor(c, ok) ==
    /\ req[c].kind = "book" /\ req[c].pc = "findDoctor"
    /\ LET r == req[c]
           b == bookings[r.id]
           slots == timeSlots[b.doctor]
           i == find(slots, r.date[1], b.time)
       IN  req' = [req EXCEPT ![c] =
                IF ~ok THEN Catch(Throw(r))
                ELSE IF b.doctor \notin Doctors THEN Respond(r, "404 Doctor not found")
                ELSE IF i = 0 THEN Respond(r, "redirect /patient/bookings")
                ELSE [r EXCEPT !.doctorFound = TRUE, !.slots = slots,
                               !.timeSlotIndex = i, !.slotStatus = "booked",
                               !.pc = "doctorSave"]]
    /\ UNCHANGED <<now, bookings, timeSlots, chats, calendar, nUpdates, aside>>

\* ... `await doctor.save()` and the redirect
BookDoctorSave(c, ok) ==
    /\ req[c].kind = "book" /\ req[c].pc = "doctorSave"
    /\ LET r == req[c]
           d == bookings[r.id].doctor
       IN  IF ok
           THEN /\ timeSlots' = [timeSlots EXCEPT ![d] = SaveSlots(@, r)]
                /\ req' = [req EXCEPT ![c] = Respond(r, "redirect /patient/bookings")]
           ELSE /\ req' = [req EXCEPT ![c] = Catch(Throw(r))]
                /\ UNCHANGED timeSlots
    /\ UNCHANGED <<now, bookings, chats, calendar, nUpdates, aside>>

\* POST /doctor/bookings/:id: isLoggedIn, then the handler up to
\* `await Booking.findById(...).populate(...)`, with the status assignment
\* that follows it
UpdateLoad(S, c, session, id, status, ok) ==
    /\ Free(S.requests, c)
    /\ nUpdates < MaxUpdates
    /\ nUpdates' = nUpdates + 1
    /\ LET r == [Idle EXCEPT !.kind = "update", !.session = session,
                             !.id = id, !.status = status]
       IN  IF ~isLoggedIn(session)
                THEN req' = Arrive(c, Respond(r, "redirect /auth/login"))
           ELSE IF ~ok THEN req' = Arrive(c, Catch(Throw(r)))
           ELSE IF id \notin 1..Len(bookings)
                THEN req' = Arrive(c, Respond(r, "404 Booking not found"))
           ELSE LET b == bookings[id]
                    found == b.doctor \in Doctors
                IN  req' = Arrive(c,
                        [r EXCEPT !.booking = <<b>>,
                                  !.doctorFound = found,
                                  !.slots = IF found THEN timeSlots[b.doctor] ELSE <<>>,
                                  !.currentStatus = b.status,
                                  !.late = isAfter(now, b),
                                  !.newStatus = NewStatus(now, b, status),
                                  !.link = b.meetingLink,
                                  !.pc = IF NeedsMeetLink(status, b)
                                         THEN "createGoogleMeetLink" ELSE "bookingSave"])
    /\ UNCHANGED <<now, bookings, timeSlots, chats, calendar, aside>>

\* response.data.hangoutLink: every calendar event has a link of its own
hangoutLink(id, n) == <<"meet", id, n>>

\* ... `booking.meetingLink = await createGoogleMeetLink(booking)`
createGoogleMeetLink(c, ok) ==
    /\ req[c].kind = "update" /\ req[c].pc = "createGoogleMeetLink"
    /\ LET r == req[c]
       IN  IF r.doctorFound /\ ok
           THEN /\ calendar' = [calendar EXCEPT ![r.id] = @ + 1]
                /\ req' = [req EXCEPT ![c] =
                        [r EXCEPT !.link = hangoutLink(r.id, calendar[r.id] + 1),
                                  !.events = @ + 1, !.pc = "bookingSave"]]
           ELSE /\ req' = [req EXCEPT ![c] = Catch(Throw(r))]
                /\ UNCHANGED calendar
    /\ UNCHANGED <<now, bookings, timeSlots, chats, nUpdates, aside>>

\* ... `await booking.save()`, the 404 for a missing doctor, and the slot scan
UpdateBookingSave(c, ok) ==
    /\ req[c].kind = "update" /\ req[c].pc = "bookingSave"
    /\ LET r == req[c]
           b == r.booking[1]
           i == findIndex(r.slots, b)
           raced == \E x \in Conns \ {c} :
                        /\ req[x].kind = "update" /\ req[x].id = r.id
                        /\ req[x].pc = "doctorSave"
       IN  IF ok
           THEN /\ bookings' = [bookings EXCEPT ![r.id] = SaveBooking(@, r)]
                /\ req' = [req EXCEPT ![c] =
                        IF ~r.doctorFound THEN Respond(r, "404 Doctor not found")
                        ELSE IF i = 0 THEN Respond(r, "redirect /doctor/bookings")
                        ELSE [r EXCEPT !.timeSlotIndex = i,
                                       !.slotStatus = SlotStatus(r.currentStatus, r.status),
                                       !.interleaved = raced,
                                       !.pc = "doctorSave"]]
           ELSE /\ req' = [req EXCEPT ![c] = Catch(Throw(r))]
                /\ UNCHANGED bookings
    /\ UNCHANGED <<now, timeSlots, chats, calendar, nUpdates, aside>>

\* ... `await doctor.save()`
UpdateDoctorSave(c, ok) ==
    /\ req[c].kind = "update" /\ req[c].pc = "doctorSave"
    /\ LET r == req[c]
           b == r.booking[1]
       IN  IF ok
           THEN /\ timeSlots' = [timeSlots EXCEPT ![b.doctor] = SaveSlots(@, r)]
                /\ req' = [req EXCEPT ![c] =
                        IF Emails(r.status, b.consultationType) = << >>
                        THEN Respond(r, "redirect /doctor/bookings")
                        ELSE [r EXCEPT !.pc = "sendAppointmentEmail"]]
           ELSE /\ req' = [req EXCEPT ![c] = Catch(Throw(r))]
                /\ UNCHANGED timeSlots
    /\ UNCHANGED <<now, bookings, chats, calendar, nUpdates, aside>>

\* (mutant of Mailed: the error of sendMail is logged and not thrown on)
Mailed_swallowed(r, ok) ==
    LET mails == Emails(r.status, r.booking[1].consultationType)
        sent == Append(r.sent, mails[Len(r.sent) + 1])
        q == IF ok THEN r ELSE Throw(r)
    IN  [q EXCEPT !.sent = sent,
                  !.pc = IF Len(sent) = Len(mails) THEN "chat" ELSE @]

\* (mutant of Mailed: a failed email is caught where it is sent, and the
\* handler carries on with what follows)
Mailed_carriesOn(r, ok) ==
    LET mails == Emails(r.status, r.booking[1].consultationType)
    IN  IF ~ok THEN [Throw(r) EXCEPT !.pc = "chat"]
        ELSE [r EXCEPT !.sent = Append(r.sent, mails[Len(r.sent) + 1]),
                       !.pc = IF Len(r.sent) + 1 = Len(mails) THEN "chat" ELSE @]

\* one sendAppointmentEmail call: transporter.sendMail, whose error is thrown
\* on to the handler
Mailed(r, ok) ==
    LET mails == Emails(r.status, r.booking[1].consultationType)
        sent == Append(r.sent, mails[Len(r.sent) + 1])
    IN  IF ~ok THEN Catch(Throw(r))
        ELSE [r EXCEPT !.sent = sent,
                       !.pc = IF Len(sent) = Len(mails) THEN "chat" ELSE @]

\* ... each `await sendAppointmentEmail(...)`
sendAppointmentEmail(c, ok) ==
    /\ req[c].kind = "update" /\ req[c].pc = "sendAppointmentEmail"
    /\ req' = [req EXCEPT ![c] = Mailed(req[c], ok)]
    /\ UNCHANGED <<now, bookings, timeSlots, chats, calendar, nUpdates, aside>>

\* ... `await Chat.findOneAndUpdate(...)` and the redirect
UpdateChat(c, ok) ==
    /\ req[c].kind = "update" /\ req[c].pc = "chat"
    /\ LET r == req[c]
           b == r.booking[1]
       IN  IF ok
           THEN /\ chats' = PushMessage(chats, ChatKey(b), ChatMessage(b, r.status))
                /\ req' = [req EXCEPT ![c] =
                        Respond([r EXCEPT !.pushed = @ + 1], "redirect /doctor/bookings")]
           ELSE /\ req' = [req EXCEPT ![c] = Catch(Throw(r))]
                /\ UNCHANGED chats
    /\ UNCHANGED <<now, bookings, timeSlots, calendar, nUpdates, aside>>

\* ------------------------------------------ the doctor's time slots
\* req.params.index of DELETE /doctor/manage-time-slots/:index, as a number
Indexes == {<<"-", "1">>, <<"0">>, <<"1">>, <<"2">>, <<"a">>}
\* req.body of POST /doctor/add-time-slot
StartTimes == {"00:00", "01:00"}
HospitalNames == {"h1", "h0"}                   \* h0 is no hospital of the doctor

\* (mutant of splice: the index counts from 1)
splice_fromOne(slots, index) ==
    LET len == Len(slots)
        start == IF index - 1 < 0 THEN (IF len + index - 1 < 0 THEN 0 ELSE len + index - 1)
                 ELSE IF index - 1 > len THEN len ELSE index - 1
    IN  [i \in 1..(IF start < len THEN len - 1 ELSE len) |->
            IF i <= start THEN slots[i] ELSE slots[i + 1]]

\* Number(s): the number a string spells, NaN when it spells none
ToNumber(s) ==
    LET signed == Len(s) > 0 /\ s[1] \in {"-", "+"}
        first == IF signed THEN 2 ELSE 1
    IN  IF Len(s) = 0 THEN [nan |-> FALSE, n |-> 0]
        ELSE IF first > Len(s) \/ \E i \in first..Len(s) : s[i] \notin Digits
        THEN [nan |-> TRUE, n |-> 0]
        ELSE [nan |-> FALSE,
              n |-> (IF signed /\ s[1] = "-" THEN -1 ELSE 1) * Base10(s, first, Len(s))]

\* the integer splice makes of its first argument: NaN counts as 0
ToIntegerOrInfinity(s) == IF isNaN(ToNumber(s)) THEN 0 ELSE ToNumber(s).n

\* doctor.timeSlots.splice(index, 1): a negative index counts from the end,
\* an index past the end removes nothing
splice(slots, index) ==
    LET len == Len(slots)
        start == IF index < 0 THEN (IF len + index < 0 THEN 0 ELSE len + index)
                 ELSE IF index > len THEN len ELSE index
    IN  [i \in 1..(IF start < len THEN len - 1 ELSE len) |->
            IF i <= start THEN slots[i] ELSE slots[i + 1]]

\* DELETE /doctor/manage-time-slots/:index: isLoggedIn, then the handler up to
\* `await Doctor.findOne(...)`, with the splice that follows it
DeleteSlotLoad(S, c, session, index, ok) ==
    /\ Free(S.requests, c)
    /\ LET r == [Idle EXCEPT !.kind = "deleteSlot", !.session = session]
       IN  req' = Arrive(c,
                IF ~isLoggedIn(session) THEN Respond(r, "redirect /auth/login")
                ELSE IF ~ok THEN Catch(Throw(r))
                ELSE IF session.id \notin Doctors THEN Respond(r, "404 Doctor not found")
                ELSE [r EXCEPT !.doctorFound = TRUE,
                               !.index = index,
                               !.slots = splice(timeSlots[session.id],
                                                ToIntegerOrInfinity(index)),
                               !.pc = "doctorSave"])
    /\ UNCHANGED <<now, bookings, timeSlots, chats, calendar, nUpdates, aside>>

\* ... `await doctor.save()`: the array is written whole
DeleteSlotSave(c, ok) ==
    /\ req[c].kind = "deleteSlot" /\ req[c].pc = "doctorSave"
    /\ LET r == req[c]
       IN  IF ok
           THEN /\ timeSlots' = [timeSlots EXCEPT ![r.session.id] = r.slots]
                /\ req' = [req EXCEPT ![c] = Respond(r, "redirect /doctor/manage-time-slots")]
           ELSE /\ req' = [req EXCEPT ![c] = Catch(Throw(r))]
                /\ UNCHANGED timeSlots
    /\ UNCHANGED <<now, bookings, chats, calendar, nUpdates, aside>>

\* POST /doctor/add-time-slot: isLoggedIn, then the handler up to
\* `await Doctor.findOne(...)`, with the push that follows it
AddSlotLoad(S, c, session, date, startTime, hospital, ok) ==
    /\ Free(S.requests, c)
    /\ session.id \in Doctors => Len(timeSlots[session.id]) < MaxSlots
    /\ LET r == [Idle EXCEPT !.kind = "addSlot", !.session = session]
       IN  req' = Arrive(c,
                IF ~isLoggedIn(session) THEN Respond(r, "redirect /auth/login")
                ELSE IF ~ok THEN Catch(Throw(r))
                ELSE IF session.id \notin Doctors THEN Respond(r, "404 Doctor not found")
                ELSE IF hospital \notin Hospitals THEN Respond(r, "404 Hospital not found")
                ELSE [r EXCEPT !.doctorFound = TRUE,
                               !.slots = Append(timeSlots[session.id],
                                                newTimeSlot(date, startTime, hospital)),
                               !.pc = "doctorSave"])
    /\ UNCHANGED <<now, bookings, timeSlots, chats, calendar, nUpdates, aside>>

\* ... `await doctor.save()`: the new slot is pushed
AddSlotSave(c, ok) ==
    /\ req[c].kind = "addSlot" /\ req[c].pc = "doctorSave"
    /\ LET r == req[c]
       IN  IF ok
           THEN /\ timeSlots' = [timeSlots EXCEPT ![r.session.id] =
                                    Append(@, r.slots[Len(r.slots)])]
                /\ req' = [req EXCEPT ![c] = Respond(r, "redirect /doctor/manage-time-slots")]
           ELSE /\ req' = [req EXCEPT ![c] = Catch(Throw(r))]
                /\ UNCHANGED timeSlots
    /\ UNCHANGED <<now, bookings, chats, calendar, nUpdates, aside>>

\* the requests that change the doctor's list of time slots
SlotsNextOf(S) ==
    \/ \E c \in Conns, session \in S.sessions, index \in Indexes, ok \in S.outcomes :
            DeleteSlotLoad(S, c, session, index, ok)
    \/ \E c \in Conns, ok \in S.outcomes : DeleteSlotSave(c, ok)
    \/ \E c \in Conns, session \in S.sessions, date \in S.dates,
          startTime \in StartTimes, hospital \in HospitalNames, ok \in S.outcomes :
            AddSlotLoad(S, c, session, date, startTime, hospital, ok)
    \/ \E c \in Conns, ok \in S.outcomes : AddSlotSave(c, ok)

\* the parameters each search endpoint reads from req.query
AuthParams == {"what", "where", "country", "state", "city", "speciality",
               "languages", "gender", "hospitals", "availability"}
PatientParams == {"what", "where", "country", "state", "city", "speciality",
                  "languages", "gender", "hospital", "availability",
                  "dateAvailability", "consultation"}

\* the query of the request before, when it was to the same endpoint
Refined(endpoint) == IF search.endpoint = endpoint THEN search.query ELSE NoQuery

\* GET /auth/search-doctors with one more parameter than the request before
authSearchDoctors(p, v, ok) ==
    /\ ~given(Refined("/auth/search-doctors"), p)
    /\ Cardinality(Given(Refined("/auth/search-doctors"))) < MaxParams
    /\ LET q == [Refined("/auth/search-doctors") EXCEPT ![p] = v]
       IN  search' = [endpoint |-> "/auth/search-doctors", query |-> q,
                      status |-> IF ok THEN 200 ELSE 500,
                      doctors |-> IF ok THEN {d \in Doctor : authQuery(q, d)} ELSE {}]
    /\ UNCHANGED <<Doctor, booked, others>>

\* GET /patient/search-doctors with one more parameter than the request before
patientSearchDoctors(p, v, ok) ==
    /\ ~given(Refined("/patient/search-doctors"), p)
    /\ Cardinality(Given(Refined("/patient/search-doctors"))) < MaxParams
    /\ LET q == [Refined("/patient/search-doctors") EXCEPT ![p] = v]
       IN  search' = [endpoint |-> "/patient/search-doctors", query |-> q,
                      status |-> IF ok THEN 200 ELSE 500,
                      doctors |-> IF ok THEN {d \in Doctor : patientFilter(q, d)} ELSE {}]
    /\ UNCHANGED <<Doctor, booked, others>>

NextOf(S) ==
    \/ Tick
    \/ \E c \in Conns, p \in Patients, d \in S.doctorIds, date \in S.dates,
          time \in S.times, t \in S.types, ok \in S.outcomes :
            BookSave(S, c, p, d, date, time, t, ok)
    \/ \E c \in Conns, ok \in S.outcomes : BookFindDoctor(c, ok)
    \/ \E c \in Conns, ok \in S.outcomes : BookDoctorSave(c, ok)
    \/ \E c \in Conns, session \in S.sessions, id \in 1..S.bookings,
          status \in S.statuses, ok \in S.outcomes :
            UpdateLoad(S, c, session, id, status, ok)
    \/ \E c \in Conns, ok \in S.outcomes : createGoogleMeetLink(c, ok)
    \/ \E c \in Conns, ok \in S.outcomes : UpdateBookingSave(c, ok)
    \/ \E c \in Conns, ok \in S.outcomes : UpdateDoctorSave(c, ok)
    \/ \E c \in Conns, ok \in S.outcomes : sendAppointmentEmail(c, ok)
    \/ \E c \in Conns, ok \in S.outcomes : UpdateChat(c, ok)

\* Requests interleave at their awaits, and awaited calls may fail.
Next == NextOf(Everything)
Spec == Init /\ [][Next]_vars

\* Requests run one at a time.
SeqNext == NextOf([Everything EXCEPT !.requests = 1])
SeqSpec == Init /\ [][SeqNext]_vars

\* Requests run one at a time and no awaited call fails.
OkNext == NextOf([Everything EXCEPT !.requests = 1, !.outcomes = {TRUE}])
OkSpec == Init /\ [][OkNext]_vars

\* Requests run one at a time, and one more booking is made than elsewhere.
AgainNext == NextOf([Everything EXCEPT !.requests = 1, !.bookings = MaxBookings + 1])
AgainSpec == Init /\ [][AgainNext]_vars

\* Requests run one at a time, and the doctor adds and deletes time slots.
SlotNext ==
    \/ NextOf([Everything EXCEPT !.requests = 1])
    \/ SlotsNextOf([Everything EXCEPT !.requests = 1])
SlotSpec == Init /\ [][SlotNext]_vars

\* Requests run one at a time and come from any session.
AuthNext == NextOf([Everything EXCEPT !.requests = 1, !.sessions = Sessions])
AuthSpec == Init /\ [][AuthNext]_vars

\* The doctor search: the collection holds any one of the profiles, and each
\* request refines the one before by one parameter.
SearchInit ==
    /\ now = 0 /\ bookings = << >> /\ timeSlots = [d \in Doctors |-> InitialSlots]
    /\ chats = << >> /\ calendar = [b \in {} |-> 0]
    /\ req = [c \in Conns |-> Idle] /\ nUpdates = 0
    /\ Doctor \in {{d} : d \in Profiles}
    /\ search = NoSearch
    /\ OthersInit
SearchNext ==
    \/ \E p \in AuthParams, ok \in Outcomes : \E v \in Params[p] :
            authSearchDoctors(p, v, ok)
    \/ \E p \in PatientParams, ok \in Outcomes : \E v \in Params[p] :
            patientSearchDoctors(p, v, ok)
SearchSpec == SearchInit /\ [][SearchNext]_vars

\* The doctor subscribes.
SubscriptionSpec == Init /\ [][SubscriptionNext]_vars

\* The calendars, on any day and over any stored bookings.
CalendarStart ==
    /\ now = 0 /\ bookings = << >> /\ timeSlots = [d \in Doctors |-> InitialSlots]
    /\ chats = << >> /\ calendar = [b \in {} |-> 0]
    /\ req = [c \in Conns |-> Idle] /\ nUpdates = 0
    /\ Doctor = {} /\ search = NoSearch
    /\ OthersStart(CalendarInit)
CalendarSpec == CalendarStart /\ [][CalendarNext]_vars

\* The patient adds favorites, the requests interleaving at their awaits.
FavoritesNext == FavoritesNextOf(MaxInflight)
FavoritesSpec == Init /\ [][FavoritesNext]_vars

\* The doctors post and edit blogs, the admin verifies them.
BlogSpec == Init /\ [][BlogNext]_vars

\* The patient adds favorites, one request at a time.
FavoritesSeqNext == FavoritesNextOf(1)
FavoritesSeqSpec == Init /\ [][FavoritesSeqNext]_vars

\* ------------------------------------------------------- claim helpers
Ids == 1..Len(bookings)
Updating(c) == req[c].kind = "update"
\* request c takes the step that leaves program point pc without throwing
Passes(c, pc) == req[c].pc = pc /\ req'[c].pc # pc /\ ~req'[c].failed
\* request c arrives in this step
Arrives(c) == ~Busy(c) /\ req'[c] # req[c]
\* the slots of booking b's doctor that have its date and start time
SlotsOf(b) ==
    IF bookings[b].doctor \in Doctors
    THEN {i \in 1..Len(timeSlots[bookings[b].doctor]) :
            /\ timeSlots[bookings[b].doctor][i].date = bookings[b].date
            /\ timeSlots[bookings[b].doctor][i].startTime = bookings[b].time[1]}
    ELSE {}
Min(S) == CHOOSE i \in S : \A j \in S : i <= j
Redirected(c) == req[c].pc = "done" /\ req[c].res = <<"redirect /doctor/bookings">>

\* ------------------------------------------------------------------ C1
\* C1 as stated: a booking is created 'waiting'; its stored status only moves
\* waiting -> accepted/rejected -> completed, never back to 'waiting', and
\* never leaves {waiting, accepted, rejected, completed}.
Lifecycle ==
    {<<"waiting", "accepted">>, <<"waiting", "rejected">>,
     <<"accepted", "completed">>, <<"rejected", "completed">>}

C1_LifecycleOnly ==
    [][ /\ \A b \in 1..Len(bookings') : b \notin Ids => bookings'[b].status = "waiting"
        /\ \A b \in Ids :
            \/ bookings'[b].status = bookings[b].status
            \/ <<bookings[b].status, bookings'[b].status>> \in Lifecycle ]_vars

\* C1 amended: a booking is created 'waiting'; a status update stores the
\* requested status or 'completed', whatever the status was, so the status can
\* skip a stage and can return to 'waiting'; it never leaves the four values.
C1_RequestedOrCompleted ==
    [][ /\ \A b \in 1..Len(bookings') : b \notin Ids => bookings'[b].status = "waiting"
        /\ \A b \in Ids :
            /\ bookings'[b].status \in {"waiting", "accepted", "rejected", "completed"}
            /\ bookings'[b].status # bookings[b].status =>
                 \E c \in Conns :
                    /\ Updating(c) /\ req[c].id = b /\ Passes(c, "bookingSave")
                    /\ bookings'[b].status \in {req[c].status, "completed"} ]_vars

\* an accepted booking has been put back to 'waiting'
C1_BackToWaiting ==
    \E c \in Conns :
        /\ Updating(c) /\ req[c].pc = "doctorSave"
        /\ req[c].currentStatus = "accepted"
        /\ bookings[req[c].id].status = "waiting"

\* ------------------------------------------------------------------ C2
\* C2: a status update stores 'completed' when the current time is after the
\* booking's end (its date combined with the end of its time range), whatever
\* was requested, and otherwise stores exactly the requested status.
C2_StatusByEndTime ==
    [][ \A c \in Conns :
          /\ (Arrives(c) /\ req'[c].kind = "update" /\ req'[c].pc # "done") =>
                req'[c].newStatus =
                    IF now > bookings[req'[c].id].date + HHmm(bookings[req'[c].id].time[2])
                    THEN "completed" ELSE req'[c].status
          /\ (Updating(c) /\ Passes(c, "bookingSave")) =>
                bookings'[req[c].id].status = req[c].newStatus ]_vars

\* 'accepted' was requested after the end of the booking and 'completed' is stored
C2_CompletedInstead ==
    \E c \in Conns :
        /\ Updating(c) /\ req[c].pc = "doctorSave" /\ req[c].status = "accepted"
        /\ req[c].newStatus = "completed"
        /\ bookings[req[c].id].status = "completed"

\* ------------------------------------------------------------------ C3
Quiet == \A c \in Conns : ~Busy(c)
\* no other booking is for the doctor, date and start time of booking b
SoleBooking(b) ==
    \A o \in Ids \ {b} :
        \/ bookings[o].doctor # bookings[b].doctor
        \/ bookings[o].date # bookings[b].date
        \/ bookings[o].time[1] # bookings[b].time[1]
\* every connection has answered a status update of booking b with the
\* redirect; one of them asked for 'rejected' and one for 'accepted'
RejectAndAccept(b) ==
    /\ \A c \in Conns : Updating(c) /\ req[c].id = b /\ Redirected(c)
    /\ \E c \in Conns : req[c].status = "rejected"
    /\ \E c \in Conns : req[c].status = "accepted"
SlotStatusOf(b) == timeSlots[bookings[b].doctor][Min(SlotsOf(b))].status
Diverged(b) ==
    /\ SlotsOf(b) # {}
    /\ \/ bookings[b].status = "accepted" /\ SlotStatusOf(b) = "free"
       \/ bookings[b].status = "rejected" /\ SlotStatusOf(b) = "booked"

\* C3: the booking write and the slot write are separate, unlocked steps: a
\* 'rejected' and an 'accepted' update of one booking leave the booking
\* 'accepted' with its slot 'free' (or 'rejected' with the slot 'booked') only
\* when the two requests ran concurrently, and such a final state is reachable.
C3_DivergeOnlyConcurrently ==
    \A b \in Ids :
        (RejectAndAccept(b) /\ SoleBooking(b) /\ Diverged(b)) =>
            \E c \in Conns : req[c].overlapped

\* both requests were between their booking save and their doctor save at
\* once, and the booking ends 'accepted' with its slot 'free'
C3_AcceptedButFree ==
    \E b \in Ids :
        /\ RejectAndAccept(b) /\ SoleBooking(b)
        /\ \E c \in Conns : req[c].interleaved
        /\ bookings[b].status = "accepted" /\ SlotsOf(b) # {} /\ SlotStatusOf(b) = "free"

\* ------------------------------------------------------------------ C4
\* C4: with requests running one at a time, once a request has been answered
\* with its redirect, a slot that exists and has a single booking is 'free'
\* exactly when that booking's stored status is 'rejected', and 'booked'
\* otherwise.
C4_SlotMatchesBooking ==
    \A b \in Ids :
        ( /\ Quiet
          /\ \E c \in Conns : req[c].pc = "done" /\ req[c].kind \in {"book", "update"}
          /\ \A c \in Conns : req[c].pc = "done" => ~req[c].failed
          /\ SlotsOf(b) # {} /\ SoleBooking(b) )
        => /\ SlotStatusOf(b) \in {"free", "booked"}
           /\ (SlotStatusOf(b) = "free") <=> (bookings[b].status = "rejected")

\* ------------------------------------------------------------------ C5
\* C5: no two bookings in status 'waiting' or 'accepted' are for the same
\* doctor, date and start time.
C5_OneActiveBookingPerSlot ==
    \A b \in Ids : \A o \in Ids \ {b} :
        ( /\ bookings[o].doctor = bookings[b].doctor
          /\ bookings[o].date = bookings[b].date
          /\ bookings[o].time[1] = bookings[b].time[1] )
        => ~ ( /\ bookings[b].status \in {"waiting", "accepted"}
               /\ bookings[o].status \in {"waiting", "accepted"} )

\* ------------------------------------------------------------------ C6
\* C6: when a slot of the booking's doctor has the booking's date and start
\* time, a status update goes on to save the doctor, and that save sets the
\* (first) such slot to 'free' if 'rejected' was requested and to 'booked' for
\* every other requested status; all other slots stay as they are.
C6_SlotFollowsRequest ==
    [][ \A c \in Conns : Updating(c) =>
          /\ (Passes(c, "bookingSave") /\ SlotsOf(req[c].id) # {}) =>
                req'[c].pc = "doctorSave"
          /\ Passes(c, "doctorSave") =>
                LET d == bookings[req[c].id].doctor
                    i == Min(SlotsOf(req[c].id))
                IN  timeSlots' = [timeSlots EXCEPT ![d][i].status =
                        IF req[c].status = "rejected" THEN "free" ELSE "booked"] ]_vars

\* a rejected booking was re-opened as 'accepted' and its slot is 'booked' again
C6_Reopened ==
    \E c \in Conns :
        /\ Updating(c) /\ req[c].pc = "sendAppointmentEmail"
        /\ req[c].currentStatus = "rejected" /\ req[c].status = "accepted"
        /\ SlotStatusOf(req[c].id) = "booked"

\* ------------------------------------------------------------------ C7
\* C7: in POST /patient/book and POST /doctor/bookings/:id a failed database
\* read or write, meeting-link creation or email ends the request with exactly
\* one response, status 500, never with the redirect; no request answers twice.
C7_ErrorsAnswered500 ==
    \A c \in Conns :
        /\ req[c].failed => req[c].pc = "done" /\ req[c].res = <<"500 Server Error">>
        /\ Busy(c) => req[c].res = << >>
        /\ req[c].pc = "done" => Len(req[c].res) = 1

\* a status update failed after its first email and was answered 500
C7_FailedAfterEmail ==
    \E c \in Conns :
        /\ Updating(c) /\ req[c].pc = "done" /\ req[c].failed
        /\ Len(req[c].sent) = 1
        /\ req[c].res = <<"500 Server Error">>

\* ------------------------------------------------------------------ C8
\* the recipients C8 gives for a status update
Recipients(c) ==
    LET b == bookings[req[c].id]
    IN  IF SlotsOf(req[c].id) = {} THEN << >>
        ELSE IF req[c].status = "accepted" /\ b.consultationType = "Video call"
            THEN <<"patient", "doctor">>
        ELSE IF req[c].status = "accepted" /\ b.consultationType = "In-person"
            THEN <<"patient">>
        ELSE IF req[c].status = "rejected" THEN <<"patient">>
        ELSE << >>
To(c) == [i \in 1..Len(req[c].sent) |-> req[c].sent[i].to]
IsPrefix(s, t) == Len(s) <= Len(t) /\ \A i \in 1..Len(s) : s[i] = t[i]

\* C8: a status update sends email only when a slot matches and 'accepted' or
\* 'rejected' is requested: patient then doctor for 'accepted' with 'Video
\* call', the patient only for 'accepted' with 'In-person' and for 'rejected',
\* nobody otherwise.  The emails sent so far are a prefix of that list, and
\* are the whole list once the request is past its emails.
C8_EmailsOnlyWhen ==
    \A c \in Conns :
        IF Updating(c) /\ req[c].id \in Ids
        THEN /\ IsPrefix(To(c), Recipients(c))
             /\ (req[c].pc = "chat" \/ (req[c].pc = "done" /\ ~req[c].failed))
                    => To(c) = Recipients(c)
        ELSE req[c].sent = << >>

\* an accepted video call: the patient, then the doctor, were emailed
C8_PatientThenDoctor ==
    \E c \in Conns :
        /\ Updating(c) /\ Redirected(c)
        /\ To(c) = <<"patient", "doctor">>

\* ------------------------------------------------------------------ C9
\* C9: a status update asks for a calendar event exactly when 'accepted' is
\* requested, the booking has no meeting link and it is a 'Video call'; events
\* are created by nothing else; with requests running one at a time and no call
\* failing, a booking gets at most one event and its stored meeting link never
\* changes once set.
C9_OneMeetingLink ==
    /\ [](\A b \in Ids : calendar[b] <= 1)
    /\ [][ /\ \A c \in Conns :
                /\ (Arrives(c) /\ req'[c].kind = "update" /\ req'[c].pc # "done") =>
                      ( req'[c].pc = "createGoogleMeetLink"
                        <=> /\ req'[c].status = "accepted"
                            /\ bookings[req'[c].id].meetingLink = << >>
                            /\ bookings[req'[c].id].consultationType = "Video call" )
                /\ (Updating(c) /\ Passes(c, "createGoogleMeetLink")) =>
                      calendar'[req[c].id] = calendar[req[c].id] + 1
           /\ \A b \in Ids :
                /\ calendar'[b] # calendar[b] =>
                      \E c \in Conns : /\ Updating(c) /\ req[c].id = b
                                       /\ Passes(c, "createGoogleMeetLink")
                /\ bookings[b].meetingLink # << >> =>
                      bookings'[b].meetingLink = bookings[b].meetingLink ]_vars

\* a booking that has its meeting link was accepted again and no event was made
C9_AcceptedAgain ==
    \E c \in Conns :
        /\ Updating(c) /\ Redirected(c) /\ req[c].status = "accepted"
        /\ req[c].events = 0
        /\ calendar[req[c].id] = 1
        /\ bookings[req[c].id].meetingLink # << >>

\* ----------------------------------------------------------------- C10
\* the requests C10 says append a message
Qualifies(c) ==
    /\ Updating(c) /\ req[c].id \in Ids /\ SlotsOf(req[c].id) # {}
    /\ \/ req[c].status = "rejected"
       \/ /\ req[c].status = "accepted"
          /\ bookings[req[c].id].consultationType \in {"Video call", "In-person"}
\* this step appends one message, sent by the doctor, to the chat of the
\* (doctor, patient) pair of request c's booking, creating the chat if need be,
\* and leaves every message that was there in its place
AppendsOne(c) ==
    LET b == bookings[req[c].id]
        key == <<b.doctor, b.patient>>
        old == IF key \in DOMAIN chats THEN chats[key] ELSE << >>
    IN  /\ DOMAIN chats' = DOMAIN chats \cup {key}
        /\ \A k \in DOMAIN chats \ {key} : chats'[k] = chats[k]
        /\ Len(chats'[key]) = Len(old) + 1
        /\ IsPrefix(old, chats'[key])
        /\ chats'[key][Len(old) + 1].senderId = b.doctor
ChatSteps ==
    /\ \A c \in Conns : (Updating(c) /\ Passes(c, "chat")) => AppendsOne(c)
    /\ chats' # chats => \E c \in Conns : Updating(c) /\ Passes(c, "chat")

\* C10: every status update that finds a matching slot, requests 'accepted'
\* (video call or in-person) or 'rejected' and runs to its redirect appends
\* exactly one message, sent by the doctor, to the chat of the booking's
\* (doctor, patient) pair, creating the chat if need be; every other request
\* appends none (among them a request one of whose calls is rejected on the
\* way); messages in a chat are never removed or reordered.
C10_OneMessagePerRedirect ==
    /\ [](\A c \in Conns :
            req[c].pushed = IF Qualifies(c) /\ Redirected(c) THEN 1 ELSE 0)
    /\ [][ChatSteps]_vars

\* a second message was appended to a chat that existed
C10_SecondMessage ==
    \E c \in Conns :
        /\ Qualifies(c) /\ Redirected(c) /\ req[c].pushed = 1
        /\ Len(chats[<<bookings[req[c].id].doctor, bookings[req[c].id].patient>>]) = 2

\* ----------------------------------------------------------------- C11
Auth == search.endpoint = "/auth/search-doctors" /\ search.status = 200
\* the filters C11 lists
Filters == {"country", "state", "city", "speciality", "languages", "gender",
            "hospitals", "availability"}
Eligible(d) ==
    /\ d.role = "doctor" /\ d.verified = "Verified"
    /\ \E i \in 1..Len(d.timeSlots) : d.timeSlots[i] = "free"
\* this request gives the parameters of the one before and one more filter
OneMoreFilter ==
    \E p \in Filters :
        /\ ~given(search.query, p) /\ given(search'.query, p)
        /\ search'.query = [search.query EXCEPT ![p] = search'.query[p]]

\* C11: GET /auth/search-doctors returns only stored doctors with role
\* 'doctor', verified 'Verified' and a time slot with status 'free', whatever
\* parameters are given; a request that gives one more of the filters country,
\* state, city, speciality, languages, gender, hospitals, availability returns
\* a subset of what the request without it returned.
C11_EligibleAndNarrowed ==
    /\ [](Auth => \A d \in search.doctors : d \in Doctor /\ Eligible(d))
    /\ [][ (Auth /\ Auth' /\ OneMoreFilter) => search'.doctors \subseteq search.doctors ]_vars

\* a doctor who was returned for `what` is not returned once gender is given too
C11_NarrowedAway ==
    /\ Auth /\ Given(search.query) = {"what", "gender"}
    /\ search.doctors = {}
    /\ \E d \in Doctor : Eligible(d) /\ authQuery([search.query EXCEPT !.gender = << >>], d)

\* ----------------------------------------------------------------- C12
\* what C12 means by matching the two terms
MatchesWhat(d, what) ==
    \/ regexAny(d.speciality, what) \/ regexAny(d.more.conditions, what)
    \/ regex(d.name, what)
MatchesWhere(d, where) ==
    \/ regex(d.place.city, where) \/ regex(d.place.state, where)
    \/ regex(d.place.country, where)

\* C12: in both search endpoints, when `what` and `where` are both given,
\* every returned doctor matches `what` (speciality, conditions or name) and
\* matches `where` (city, state or country).
C12_WhatAndWhere ==
    (search.status = 200 /\ given(search.query, "what") /\ given(search.query, "where"))
        => \A d \in search.doctors :
                MatchesWhat(d, search.query.what) /\ MatchesWhere(d, search.query.where)

\* ----------------------------------------------------------------- C13
\* request c has stored what it assigned to its booking / to its slot
BookingSaved(c) ==
    /\ bookings[req[c].id].status = req[c].newStatus
    /\ bookings[req[c].id].meetingLink = req[c].link
SlotSaved(c) ==
    timeSlots[bookings[req[c].id].doctor][req[c].timeSlotIndex].status = req[c].slotStatus
\* the time slots stored for doctor d: none when no such doctor is stored
StoredSlots(d) == IF d \in Doctors THEN timeSlots[d] ELSE << >>
\* the emails request c has to send
Mails(c) == Emails(req[c].status, bookings[req[c].id].consultationType)

\* C13: a status update changes things in a fixed order: the calendar event
\* (when one is due) before the booking is saved, the booking before the time
\* slots, the time slots before any email, every email before the chat
\* message; and a request one of whose steps failed takes no further step.
C13_FixedOrder ==
    /\ [](\A c \in Conns : Busy(c) => ~req[c].failed)
    /\ [][ \A c \in Conns : (Updating(c) /\ Busy(c) /\ req'[c] # req[c]) =>
            LET r == req[c]
                b == r.booking[1]
                due == /\ r.status = "accepted" /\ b.meetingLink = << >>
                       /\ b.consultationType = "Video call"
            IN  /\ calendar' # calendar =>
                    bookings[r.id] = b /\ StoredSlots(b.doctor) = r.slots /\ r.sent = << >>
                /\ bookings' # bookings =>
                    /\ due => r.events = 1 /\ r.link # << >>
                    /\ StoredSlots(b.doctor) = r.slots /\ r.sent = << >> /\ r.pushed = 0
                /\ timeSlots' # timeSlots =>
                    BookingSaved(c) /\ r.sent = << >> /\ r.pushed = 0
                /\ req'[c].sent # r.sent =>
                    BookingSaved(c) /\ SlotSaved(c) /\ r.pushed = 0
                /\ chats' # chats =>
                    BookingSaved(c) /\ SlotSaved(c) /\ r.sent = Mails(c) /\ r.pushed = 0 ]_vars

\* a request has taken every step: event, booking, slot, two emails, message
C13_EveryStep ==
    \E c \in Conns :
        /\ Updating(c) /\ Redirected(c)
        /\ req[c].events = 1 /\ Len(req[c].sent) = 2 /\ req[c].pushed = 1

\* ----------------------------------------------------------------- C14
\* request c fails in this step and is answered 500
Fails(c) == Updating(c) /\ Busy(c) /\ req'[c].failed
Untouched == bookings' = bookings /\ timeSlots' = timeSlots /\ chats' = chats
\* what is stored is what request c loaded
BookingAsLoaded(c) == bookings[req[c].id] = req[c].booking[1]
SlotsAsLoaded(c) == StoredSlots(req[c].booking[1].doctor) = req[c].slots

\* C14 as stated: when a status update answers 500, the booking's stored
\* status and meeting link, the doctor's time slots and the chat are what they
\* were before the request.
C14_FailureChangesNothing ==
    [][ \A c \in Conns : Fails(c) =>
            /\ Untouched /\ req[c].pushed = 0
            /\ BookingAsLoaded(c) /\ SlotsAsLoaded(c) ]_vars

\* C14 amended: a status update that answers 500 keeps what it saved before
\* the failing step.  The chat is what it was before the request; the booking
\* is, when the failure is that of the meeting link or of booking.save(); the
\* time slots are, when it is one of these or that of doctor.save().  A failed
\* doctor.save() leaves the new status and link stored, and a failed email or
\* chat write leaves the slot's new status stored too.
C14_SavedStaysSaved ==
    [][ \A c \in Conns : Fails(c) =>
            /\ Untouched /\ req[c].pushed = 0
            /\ req[c].pc \in {"createGoogleMeetLink", "bookingSave"} =>
                    BookingAsLoaded(c) /\ SlotsAsLoaded(c)
            /\ req[c].pc = "doctorSave" => BookingSaved(c) /\ SlotsAsLoaded(c)
            /\ req[c].pc \in {"sendAppointmentEmail", "chat"} =>
                    /\ BookingSaved(c)
                    /\ StoredSlots(req[c].booking[1].doctor) =
                        [req[c].slots EXCEPT ![req[c].timeSlotIndex].status = req[c].slotStatus] ]_vars

\* the first status update rejected the booking, freed its slot and answered
\* 500 because the email failed
C14_RejectedYet500 ==
    \E c \in Conns :
        /\ nUpdates = 1 /\ Updating(c) /\ req[c].pc = "done" /\ req[c].failed
        /\ req[c].id \in Ids
        /\ req[c].status = "rejected" /\ req[c].sent = << >>
        /\ bookings[req[c].id].status = "rejected"
        /\ SlotsOf(req[c].id) # {} /\ SlotStatusOf(req[c].id) = "free"

\* ----------------------------------------------------------------- C15
\* C15: a POST /patient/book that is answered 404 'Doctor not found' has
\* created no booking: the stored bookings are those from before the request
\* (the request's own booking, whose place in the collection is req[c].id, is
\* not among them).
C15_NoBookingWithout ==
    \A c \in Conns :
        (req[c].kind = "book" /\ req[c].res = <<"404 Doctor not found">>) =>
            /\ req[c].id \notin Ids
            /\ \A b \in Ids : bookings[b].doctor \in Doctors

\* ----------------------------------------------------------------- C16
Booking_(c) == req[c].kind = "book"
\* the slots of the doctor that the request of c asks for: those whose date,
\* written as toISOString writes it, is the request's date string and whose
\* start time is the part of the request's time before ' - '
Asked(c) ==
    LET b == bookings[req[c].id]
    IN  {i \in 1..Len(StoredSlots(b.doctor)) :
            /\ [instant |-> timeSlots[b.doctor][i].date, iso |-> TRUE] = req[c].date[1]
            /\ timeSlots[b.doctor][i].startTime = b.time[1]}

\* C16: POST /patient/book sets to 'booked' the first slot of the doctor whose
\* date equals the requested date (as the handler compares them: the slot's
\* ISO string with the request's string) and whose start time is the part of
\* the requested time before ' - ', and no other slot; when no slot matches,
\* the doctor is not saved, the booking stays stored in status 'waiting' and
\* the answer is the redirect to /patient/bookings.
C16_FirstMatchingSlot ==
    [][ \A c \in Conns : Booking_(c) =>
          /\ (Passes(c, "findDoctor") /\ bookings[req[c].id].doctor \in Doctors) =>
                IF Asked(c) = {}
                THEN /\ req'[c].pc = "done"
                     /\ req'[c].res = <<"redirect /patient/bookings">>
                     /\ bookings'[req[c].id].status = "waiting"
                     /\ timeSlots' = timeSlots
                ELSE req'[c].pc = "doctorSave" /\ timeSlots' = timeSlots
          /\ Passes(c, "doctorSave") =>
                /\ timeSlots' = [timeSlots EXCEPT
                        ![bookings[req[c].id].doctor][Min(Asked(c))].status = "booked"]
                /\ req'[c].res = <<"redirect /patient/bookings">>
          /\ (Busy(c) /\ req'[c] # req[c] /\ req[c].pc # "doctorSave") =>
                timeSlots' = timeSlots ]_vars

\* of two slots with the same date and start time the first was booked and
\* the second is still free
C16_FirstOfTwo ==
    \E c \in Conns :
        /\ Booking_(c) /\ req[c].pc = "done" /\ req[c].res = <<"redirect /patient/bookings">>
        /\ req[c].id \in Ids /\ Cardinality(SlotsOf(req[c].id)) = 2
        /\ \E i \in SlotsOf(req[c].id) : \E j \in SlotsOf(req[c].id) :
              /\ i < j
              /\ timeSlots[bookings[req[c].id].doctor][i].status = "booked"
              /\ timeSlots[bookings[req[c].id].doctor][j].status = "free"

\* ----------------------------------------------------------------- C17
\* C17: when the doctor of the booking has no slot with the booking's date
\* and start time (it was deleted, say), a status update whose booking.save()
\* succeeds has stored the new status, and with that step ends in the
\* redirect to /doctor/bookings: the doctor is not saved, no email is sent
\* and no chat message is appended.
C17_NoSlotNoNotice ==
    [][ \A c \in Conns :
          ( /\ Updating(c) /\ Passes(c, "bookingSave")
            /\ req[c].doctorFound /\ SlotsOf(req[c].id) = {} ) =>
                /\ bookings'[req[c].id].status = req[c].newStatus
                /\ req'[c].pc = "done" /\ req'[c].res = <<"redirect /doctor/bookings">>
                /\ req'[c].sent = << >> /\ req'[c].pushed = 0
                /\ timeSlots' = timeSlots /\ chats' = chats ]_vars

\* the slot of a video call was deleted; the booking was then accepted, and
\* nobody was told
C17_AcceptedUnannounced ==
    \E c \in Conns :
        /\ Updating(c) /\ Redirected(c) /\ req[c].status = "accepted"
        /\ bookings[req[c].id].doctor \in Doctors
        /\ bookings[req[c].id].time[1] = "00:00"
        /\ bookings[req[c].id].consultationType = "Video call"
        /\ bookings[req[c].id].status = "accepted"
        /\ SlotsOf(req[c].id) = {}
        /\ req[c].sent = << >> /\ req[c].pushed = 0

\* ----------------------------------------------------------------- C18
\* the email request c sends in this step
Sends(c, subjects) ==
    /\ Len(req'[c].sent) = Len(req[c].sent) + 1
    /\ req'[c].sent[Len(req'[c].sent)].subject \in subjects

\* C18: what a status update makes known agrees with the status it stores: a
\* request that creates a meeting link or sends a confirmation email stores
\* 'accepted', and one that frees the slot or sends a rejection email stores
\* 'rejected', also when it arrives after the booking's end time.
C18_NoticesAgree ==
    [][ \A c \in Conns : (Updating(c) /\ Busy(c)) =>
          /\ (Passes(c, "bookingSave") /\ req[c].events > 0) =>
                bookings'[req[c].id].status = "accepted"
          /\ (Passes(c, "doctorSave") /\ req[c].slotStatus = "free") =>
                bookings[req[c].id].status = "rejected"
          /\ Sends(c, {"Appointment Confirmation", "Appointment Confirmation Notification"}) =>
                bookings[req[c].id].status = "accepted"
          /\ Sends(c, {"Appointment Rejection"}) =>
                bookings[req[c].id].status = "rejected" ]_vars

\* ----------------------------------------------------------------- C19
\* C19 as stated: once a booking's stored status is 'completed', no status
\* update changes it.
C19_CompletedStays ==
    [][ \A b \in Ids :
            bookings[b].status = "completed" => bookings'[b].status = "completed" ]_vars

\* C19 amended: 'completed' is final from the booking's end time on: a request
\* that arrives after the end time stores 'completed' whatever it asks for,
\* so once the stored status is 'completed' and the end time has passed, no
\* request that arrives from then on changes it.  Before the end time a
\* 'completed' that a request asked for is replaced by whatever a later
\* request asks for.
C19_CompletedOnceOver ==
    [][ \A b \in Ids :
          ( /\ bookings[b].status = "completed" /\ isAfter(now, bookings[b])
            /\ \A c \in Conns : (Updating(c) /\ Busy(c) /\ req[c].id = b) => req[c].late )
          => /\ bookings'[b].status = "completed" /\ isAfter(now', bookings'[b])
             /\ \A c \in Conns :
                  (req'[c].kind = "update" /\ req'[c].pc \notin {"idle", "done"}
                   /\ req'[c].id = b) => req'[c].late ]_vars

\* after the end time 'waiting' was asked for and the booking is 'completed'
C19_WaitingRefused ==
    \E c \in Conns :
        /\ Updating(c) /\ Redirected(c) /\ req[c].status = "waiting"
        /\ nUpdates = 2
        /\ isAfter(now, bookings[req[c].id])
        /\ bookings[req[c].id].status = "completed"

\* ----------------------------------------------------------------- C20
\* C20: a status update changes a booking, a time slot or a chat only when
\* the booking's doctor is the doctor of the session; a request whose session
\* has no user with role 'doctor' is redirected to /auth/login and changes
\* nothing.
C20_OwnBookingsOnly ==
    [][ \A c \in Conns :
          /\ ( /\ Updating(c) /\ Busy(c) /\ req'[c] # req[c]
               /\ (bookings' # bookings \/ timeSlots' # timeSlots \/ chats' # chats) ) =>
                    /\ req[c].session.role = "doctor"
                    /\ bookings[req[c].id].doctor = req[c].session.id
          /\ (Arrives(c) /\ req'[c].kind = "update" /\ req'[c].session.role # "doctor") =>
                    /\ req'[c].pc = "done" /\ req'[c].res = <<"redirect /auth/login">>
                    /\ bookings' = bookings /\ timeSlots' = timeSlots /\ chats' = chats ]_vars


\* ------------------------------------------------------------------ C21
\* an amount that is a positive integer: digits only, and more than zero
PositiveInteger(s) ==
    /\ Len(s) > 0
    /\ \A i \in 1..Len(s) : s[i] \in Digits
    /\ Base10(s, 1, Len(s)) > 0

Subscribing == reply.route = "POST /doctor/subscribe"
Succeeding == reply.route = "GET /doctor/subscription-success"
\* the amount the last POST /doctor/subscribe was sent with
AmountSent == reply.request[2][1].amount

\* C21: a doctor's subscription fields are written only by a
\* GET /doctor/subscription-success that answers for a paid checkout session,
\* and then they are 'Pending' with the type, payment details and proofs; a
\* request for a session that is not paid is refused (400, or 500 when the
\* session cannot be retrieved) and changes no doctor; and a logged-in doctor's
\* POST /doctor/subscribe whose amount is not a positive integer is answered
\* 400, creates no checkout session and stores nothing in the session.
C21_PendingOnlyWhenPaid ==
    /\ [](Subscribing /\ isLoggedIn(reply.session) /\ reply.request[2] # << >>
            /\ ~PositiveInteger(AmountSent) => reply.status = 400)
    /\ [][/\ subscribed' # subscribed =>
                /\ Succeeding' /\ reply'.status = 200
                /\ stripe[reply'.request[1]].payment_status = "paid"
                /\ \A d \in Doctors : subscribed'[d] # subscribed[d] =>
                        /\ subscribed'[d].subscription = "Pending"
                        /\ subscribed'[d].subscriptionType \in SubscriptionTypes
                        /\ subscribed'[d].paymentDetails # << >>
                        /\ subscribed'[d].documents # << >>
          /\ (Succeeding' /\ reply' # reply /\ reply'.request[1] \in 1..Len(stripe)
                /\ stripe[reply'.request[1]].payment_status # "paid") =>
                    reply'.status \in {400, 500} /\ subscribed' = subscribed
          /\ (Len(stripe') > Len(stripe) \/ subscriptionInfo' # subscriptionInfo) =>
                Subscribing' /\ PositiveInteger(AmountSent')
      ]_vars

\* ------------------------------------------------------------------ C22
\* C22: every write of a subscription to a doctor carries the type and the
\* amount of the checkout session named by session_id, and no checkout
\* session is written to a doctor twice.
C22_PaidForIsRecorded ==
    \A i \in 1..Len(applied) :
        /\ applied[i].subscriptionType = stripe[applied[i].session_id].name
        /\ applied[i].amount = stripe[applied[i].session_id].unit_amount
        /\ \A j \in 1..Len(applied) :
                applied[j].session_id = applied[i].session_id => j = i

\* ------------------------------------------------------------------ C23
\* a whole number written in digits, with or without a sign
Numeral(s) ==
    LET first == IF Len(s) > 0 /\ s[1] \in {"-", "+"} THEN 2 ELSE 1
    IN  first <= Len(s) /\ \A i \in first..Len(s) : s[i] \in Digits
\* the number a numeral stands for
NumberOf(s) ==
    IF s[1] = "-" THEN -Base10(s, 2, Len(s))
    ELSE IF s[1] = "+" THEN Base10(s, 2, Len(s)) ELSE Base10(s, 1, Len(s))
\* a query value that names a number from lo to hi
Within(s, lo, hi) == Numeral(s) /\ NumberOf(s) >= lo /\ NumberOf(s) <= hi

\* C23: a rendered calendar shows the month asked for when it is one of 0..11
\* and the year asked for when it is one of 1900..2100, the current month or
\* year for any other value, and lists exactly the viewer's bookings of that
\* month whose status is 'accepted'.
C23_RequestedMonthAndYear ==
    view.status = 200 =>
        /\ view.currentMonth = IF Within(view.month, 0, 11) THEN NumberOf(view.month)
                               ELSE today.month
        /\ view.currentYear = IF Within(view.year, 1900, 2100) THEN NumberOf(view.year)
                              ELSE today.year
        /\ view.bookings =
                {b \in appointments :
                    /\ b[view.session.role] = view.session.id
                    /\ b.status = "accepted"
                    /\ b.date[1] = view.currentYear /\ b.date[2] = view.currentMonth}

\* ------------------------------------------------------------------ C24
\* C24: no favoriteDoctors list holds a doctor twice, and a request answered
\* 400 or 404 leaves every list as it was.
C24_NoDoctorTwice ==
    /\ [](\A p \in StoredPatients : \A i, j \in 1..Len(favoriteDoctors[p]) :
            favoriteDoctors[p][i] = favoriteDoctors[p][j] => i = j)
    /\ [][\A c \in Conns :
            (adding'[c] # adding[c]
                /\ adding'[c].res \in {"400 Doctor already in favorites",
                                       "404 Patient or Doctor not found"})
            => favoriteDoctors' = favoriteDoctors]_vars

\* ------------------------------------------------------------------ C25
\* the step in which the DELETE request on connection c is saved and answered
Deleted(c) ==
    /\ req[c].kind = "deleteSlot" /\ req[c].pc = "doctorSave"
    /\ req'[c].pc = "done" /\ ~req'[c].failed

\* a list without its n-th element
Without(slots, n) ==
    [i \in 1..(Len(slots) - 1) |-> IF i < n THEN slots[i] ELSE slots[i + 1]]

\* C25: a saved DELETE /doctor/manage-time-slots/:index leaves the doctor's
\* slots without the one at position index, the others in their order, when
\* index is a number from 0 to below the number of slots, and that slot is
\* not 'booked'; for every other index it leaves the slots as they were.
C25_ExactlyTheIndexed ==
    [][\A c \in Conns : Deleted(c) =>
            LET before == timeSlots[req[c].session.id]
                after == timeSlots'[req[c].session.id]
                index == req[c].index
            IN  IF Within(index, 0, Len(before) - 1)
                THEN /\ after = Without(before, NumberOf(index) + 1)
                     /\ before[NumberOf(index) + 1].status # "booked"
                ELSE after = before]_vars

\* ------------------------------------------------------------------ C26
\* the step in which the add-time-slot request on connection c is saved and answered
Added(c) ==
    /\ req[c].kind = "addSlot" /\ req[c].pc = "doctorSave"
    /\ req'[c].pc = "done" /\ ~req'[c].failed

\* the slot carries the location of the doctor's hospital of that name
Located(slot) ==
    /\ slot.hospital \in Hospitals
    /\ \E i \in 1..Len(hospitals) :
            /\ hospitals[i].name = slot.hospital
            /\ slot.hospitalLocation.street = hospitals[i].street
            /\ slot.hospitalLocation.city = hospitals[i].city
            /\ slot.hospitalLocation.state = hospitals[i].state
            /\ slot.hospitalLocation.country = hospitals[i].country
            /\ slot.hospitalLocation.zip = hospitals[i].zip

\* C26: a saved POST /doctor/add-time-slot leaves the doctor's slots as they
\* were with one more at the end, which is 'free' and carries the location of
\* the named hospital, one of the doctor's, and then no two of the doctor's
\* slots have the same date and start time; a request answered 404 leaves the
\* slots as they were.
C26_OneFreeSlotOfTheHospital ==
    [][\A c \in Conns :
        /\ Added(c) =>
            LET before == timeSlots[req[c].session.id]
                after == timeSlots'[req[c].session.id]
            IN  /\ Len(after) = Len(before) + 1
                /\ SubSeq(after, 1, Len(before)) = before
                /\ after[Len(after)].status = "free"
                /\ Located(after[Len(after)])
                /\ \A i, j \in 1..Len(after) :
                        (after[i].date = after[j].date
                            /\ after[i].startTime = after[j].startTime) => i = j
        /\ (req'[c] # req[c] /\ req'[c].kind = "addSlot" /\ req'[c].pc = "done"
                /\ req'[c].res[Len(req'[c].res)] \in {"404 Hospital not found",
                                                      "404 Doctor not found"})
            => timeSlots' = timeSlots]_vars

\* ------------------------------------------------------------------ C27
\* the step in which POST /doctor/blogs/edit/:id is answered
EditAnswered ==
    /\ blogRes'.route = "POST /doctor/blogs/edit/:id"
    /\ <<blogs, blogRes>>' # <<blogs, blogRes>>

\* C27: a blog that has been edited has the verification status a new blog
\* gets, 'Pending', and is in no listing of GET /doctor/blogs until it is
\* verified again; an edit answered 403 leaves the blogs as they were.
C27_EditedIsPendingAgain ==
    [][/\ (blogs' # blogs /\ EditAnswered) =>
            /\ blogRes'.status = 302
            /\ blogs'[blogRes'.id].verificationStatus = "Pending"
       /\ (EditAnswered /\ blogRes'.status = 403) => blogs' = blogs
       /\ blogRes'.route = "GET /doctor/blogs" =>
            \A i \in blogRes'.blogs : blogs[i].verificationStatus = "Verified"]_vars
====
